---- MODULE Spec2Model ----
(***************************************************************************)
(* Model of the arke-upload transfer engine: Uploader.upload (scan, init,  *)
(* uploadFiles, finalize), the file-level worker pool of uploadFiles, the  *)
(* per-file sequence of uploadFile, uploadSimple, uploadMultipart with its *)
(* part-level worker pool, and retryWithBackoff / isRetryableError.        *)
(*                                                                         *)
(* The program is single-threaded JavaScript: code runs to completion      *)
(* between awaits.  Each action below is the code that runs when one       *)
(* awaited operation settles, up to the next await of an external          *)
(* operation (a coordinator call, a file-system call, an object-store      *)
(* transfer).  A retry loop is local to its caller (it touches no shared   *)
(* state between attempts), so the whole loop of retryWithBackoff is       *)
(* computed inside the action that settles the call, from the pattern of   *)
(* failures the environment chooses: the action takes the outcome of the   *)
(* whole call (it returned, or it threw after so many attempts).           *)
(***************************************************************************)
EXTENDS Integers, Sequences, FiniteSets, TLC

\* Largest number of files a scan returns.
MaxFiles == 2
\* Largest number of part targets the coordinator issues over one batch.
MaxParts == 2
\* maxRetries: DEFAULT_OPTIONS.maxRetries, `options.maxRetries ?? 3`,
\* `config.maxRetries ?? 3`.
DefaultMaxRetries == 3

Min(a, b) == IF a < b THEN a ELSE b

Range(s) == {s[i] : i \in DOMAIN s}

-----------------------------------------------------------------------------
(* Errors (utils/errors.ts) and their classification.                      *)

\* An error value: the class name, the `code` and `statusCode` properties and,
\* for an error that wraps another, the class and code of its `cause`.
Err(name, code, statusCode, causeName, causeCode) ==
    [name |-> name, code |-> code, statusCode |-> statusCode,
     causeName |-> causeName, causeCode |-> causeCode]

\* Errors axios raises: without a response (transport) or with a status.
AxiosError(code, status) == Err("AxiosError", code, status, "none", "none")
\* A plain Error, or a file-system error carrying an errno code.
PlainError(code) == Err("Error", code, 0, "none", "none")

NetworkError(cause) == Err("NetworkError", "none", 0, cause.name, cause.code)
WorkerAPIError(statusCode) == Err("WorkerAPIError", "none", statusCode, "none", "none")
UploadError(cause) == Err("UploadError", "none", 0, cause.name, cause.code)

TransportCodes == {"ECONNRESET", "ETIMEDOUT", "ENOTFOUND", "ECONNREFUSED"}

\* Mutant: every coordinator error status is retried.
isRetryableErrorAnyStatus(error) ==
    \/ error.name \in {"NetworkError", "WorkerAPIError"}
    \/ error.code \in TransportCodes

isRetryableError(error) ==
    IF error.name = "NetworkError" THEN TRUE
    ELSE IF error.name = "WorkerAPIError"
         THEN (IF error.statusCode # 0 THEN error.statusCode >= 500 ELSE FALSE)
    ELSE error.code \in TransportCodes

\* WorkerClient.handleError: what a coordinator call throws for a raw error.
handleError(error) ==
    IF error.name = "AxiosError"
    THEN IF error.statusCode = 0 THEN NetworkError(error)
         ELSE WorkerAPIError(error.statusCode)
    ELSE error

\* The catch block of uploadPart's operation.
PartCatch(error) ==
    IF error.name = "AxiosError" THEN UploadError(error) ELSE error

\* The catch block of uploadSimple's operation: everything becomes UploadError.
SimpleCatch(error) == UploadError(error)

-----------------------------------------------------------------------------
(* retryWithBackoff, run on an operation that throws `error` on each of    *)
(* its first `fails` calls and succeeds on the next one.                   *)

RECURSIVE RetryLoop(_, _, _, _)
RetryLoop(attempt, error, fails, maxRetries) ==
    IF attempt >= fails
    THEN [ok |-> TRUE, attempts |-> attempt + 1]
    ELSE IF attempt >= maxRetries
    THEN [ok |-> FALSE, attempts |-> attempt + 1]
    ELSE IF ~isRetryableError(error)
    THEN [ok |-> FALSE, attempts |-> attempt + 1]
    ELSE RetryLoop(attempt + 1, error, fails, maxRetries)

retryWithBackoff(error, fails, maxRetries) == RetryLoop(0, error, fails, maxRetries)

\* How many of its first calls a failing operation fails: the first only,
\* all but the last the policy allows, or every one.
FailCounts == {1, DefaultMaxRetries, DefaultMaxRetries + 1}

\* Raw failures of a coordinator POST.
CoordErrors ==
    { AxiosError("ECONNRESET", 0), AxiosError("ERR_BAD_REQUEST", 400),
      AxiosError("ERR_BAD_RESPONSE", 500) }

\* Raw failures of an object-store PUT of one part (status other than 200,
\* transport failure, missing ETag) and of the positioned read before it.
PutErrors ==
    { AxiosError("ECONNRESET", 0), AxiosError("ERR_BAD_RESPONSE", 500) }
PartErrors == PutErrors \cup { PlainError("none"), PlainError("ETIMEDOUT") }
\* Raw failures of uploadSimple's operation: readFile or the PUT.
SimpleErrors == PutErrors \cup { PlainError("ENOENT") }

\* A PUT that failed at transport level, as seen in the error a transfer threw.
IsTransportPutFailure(thrown) ==
    /\ thrown.name = "UploadError"
    /\ thrown.causeName = "AxiosError"
    /\ thrown.causeCode \in TransportCodes

-----------------------------------------------------------------------------
(* State.                                                                  *)

VARIABLES
    config,          \* UploadConfig: dryRun, parallelUploads, parallelParts
    phase,           \* position of the run: "validate" (handleUpload), then of
                     \*   Uploader.upload: "scan", "init", "context", "files",
                     \*   "finalize", "done" (returned), "failed" (threw)
    scanned,         \* scanResult.files.length
    tasks,           \* context.tasks: one UploadTask per scanned file
    queue,           \* uploadFiles' queue: indices of tasks not yet dequeued
    workers,         \* uploadFiles' inProgress: one record per uploadWorker
    hasErrors,       \* uploadFiles' hasErrors
    filesResult,     \* uploadFiles: "none" (not returned), "returned", "threw"
    mp,              \* per task: the state of its uploadMultipart call
    issued,          \* part targets the coordinator has issued so far
    initCalls,       \* calls of client.initBatch
    initAcked,       \* client.initBatch returned
    finalizeCalls,   \* calls of client.finalizeBatch
    exited,          \* the process has ended
    exitCode,        \* its exit status
    runError,        \* class of the error the run ended with ("none": returned)
    rt,              \* a retryWithBackoff call run on its own
    sc,              \* a scanDirectory call run on its own
    pp,              \* a PreprocessorOrchestrator.run call run on its own
    cf,              \* a loadConfig call run on its own
    uf               \* an uploadFile or uploadMultipart call run on its own

\* The components run on their own are idle during an upload run.
aside == << rt, sc, pp, cf, uf >>

vars == << config, phase, scanned, tasks, queue, workers, hasErrors,
           filesResult, mp, issued, initCalls, initAcked, finalizeCalls,
           exited, exitCode, runError, aside >>

Idle == [pc |-> "idle"]

\* initializeBatch: `{...file, status: 'pending', bytesUploaded: 0}`, with
\* the history of the task's protocol steps.
NewTask ==
    [ status        |-> "pending",
      uploadType    |-> "none",      \* task.uploadType
      startCalls    |-> 0,           \* calls of client.startFileUpload
      startAcked    |-> FALSE,       \* startFileUpload returned a descriptor
      transferred   |-> FALSE,       \* that call returned (did not throw)
      partFailed    |-> FALSE,       \* an uploadPart of the file threw
      completeCalls |-> 0,           \* calls of client.completeFileUpload
      completeAcked |-> FALSE,       \* completeFileUpload returned
      putAttempts   |-> 0 ]          \* attempts of the PUT whose transport
                                     \*   failure failed the file (0: none)

\* An uploadWorker of uploadFiles with the locals of its uploadFile call.
Worker(pc, t, targets, manifest, outOfOrder) ==
    [ pc         |-> pc,          \* "start", "simple", "open", "parts",
                                  \*   "complete", "finished"
      task       |-> t,           \* the task it dequeued (0: none)
      targets    |-> targets,     \* part numbers of uploadInfo.presigned_urls
      manifest   |-> manifest,    \* part numbers of `parts`, as returned
      outOfOrder |-> outOfOrder ] \* the parts completed out of part order

FinishedWorker == Worker("finished", 0, << >>, << >>, FALSE)

\* uploadMultipart before it is called.
NoMultipart ==
    [ handle   |-> "none",    \* fileHandle: "none", "open", "closed"
      closes   |-> 0,         \* calls of fileHandle.close()
      queue    |-> << >>,     \* uploadPartsWithConcurrency's queue
      results  |-> << >>,     \* its results, in completion order
      pw       |-> << >>,     \* its uploadWorkers: pc, part, read on a closed handle
      returned |-> FALSE,     \* uploadMultipart returned or threw
      putAttempts |-> 0 ]     \* of the first rejection, if a transport PUT failure

\* Part target lists a descriptor carries: parts numbered 1..k.
PartTargetLists == { [i \in 1..k |-> i] : k \in 1..MaxParts }

\* StartFileUploadResponse: the upload type and whether the fields the type
\* needs are present (presigned_url; presigned_urls, upload_id, part_size).
Descriptors ==
    { [upload_type |-> "simple", present |-> b, presigned_urls |-> << >>]
        : b \in BOOLEAN }
    \cup { [upload_type |-> "multipart", present |-> TRUE, presigned_urls |-> l]
        : l \in PartTargetLists }
    \cup { [upload_type |-> "multipart", present |-> FALSE, presigned_urls |-> << >>] }

\* The first input handleUpload finds invalid: the worker URL, the uploader
\* name, the root path, the parent PI, the metadata JSON or the directory.
InvalidInputs ==
    {"none", "workerUrl", "uploader", "rootPath", "parentPi", "metadata", "directory"}

Init ==
    /\ config \in [ dryRun : BOOLEAN,
                    invalid : InvalidInputs,
                    parallelUploads : 0..MaxFiles,
                    parallelParts : 0..MaxParts ]
    /\ phase = "validate"
    /\ runError = "none"
    /\ rt = Idle
    /\ sc = Idle
    /\ pp = Idle
    /\ cf = Idle
    /\ uf = Idle
    /\ scanned = 0
    /\ tasks = << >>
    /\ queue = << >>
    /\ workers = << >>
    /\ hasErrors = FALSE
    /\ filesResult = "none"
    /\ mp = << >>
    /\ issued = 0
    /\ initCalls = 0
    /\ initAcked = FALSE
    /\ finalizeCalls = 0
    /\ exited = FALSE
    /\ exitCode = 0

\* What a call wrapped in retryWithBackoff comes to when its operation
\* throws `thrown` on its first `fails` calls: whether it returns and, when
\* it throws for a PUT that failed at transport level, after how many
\* attempts.
Outcome(thrown, fails) ==
    LET r == retryWithBackoff(thrown, fails, DefaultMaxRetries) IN
    [ ok |-> r.ok,
      putAttempts |-> IF ~r.ok /\ IsTransportPutFailure(thrown)
                      THEN r.attempts ELSE 0 ]

Returned == [ok |-> TRUE, putAttempts |-> 0]

\* The outcomes of a coordinator call (handleError names the error thrown),
\* of uploadSimple and of uploadPart, over every failure pattern.
CoordOutcomes ==
    {Returned} \cup { Outcome(handleError(e), fails) : e \in CoordErrors, fails \in FailCounts }
SimpleOutcomes ==
    {Returned} \cup { Outcome(SimpleCatch(e), fails) : e \in SimpleErrors, fails \in FailCounts }
PartOutcomes ==
    {Returned} \cup { Outcome(PartCatch(e), fails) : e \in PartErrors, fails \in FailCounts }
\* uploadPart when its positioned read was issued on a closed handle.
ClosedReadOutcomes ==
    { Outcome(PartCatch(PlainError("EBADF")), DefaultMaxRetries + 1) }

-----------------------------------------------------------------------------
(* The file-level worker pool of uploadFiles.                              *)

\* Mutant: one worker per task, whatever the configured parallelism.
FileConcurrencyUncapped(parallelUploads, len) == len

\* `Math.min(this.config.parallelUploads, context.tasks.length)`
FileConcurrency(parallelUploads, len) == Min(parallelUploads, len)

\* Mutant: the worker reads the head of the queue and leaves it there.
DequeuePeek(q) == q

\* `queue.shift()`: the queue that is left.
Dequeue(q) == Tail(q)

\* Mutant: a failed file ends its worker (no try/catch inside the loop).
WorkerStopsOnFailure(failed) == ~failed

\* The try/catch inside uploadWorker's loop: the worker goes on to the loop
\* test after a file, whether uploadFile returned or threw.
WorkerContinues(failed) == TRUE

\* uploadWorker at its loop test: `while (queue.length > 0)`, `queue.shift()`,
\* then uploadFile up to its first request: status 'uploading', the 100 ms
\* delay and client.startFileUpload.  st = [tasks, queue, workers].
WorkerLoop(st, w) ==
    IF Len(st.queue) > 0
    THEN LET t == Head(st.queue) IN
         [ tasks   |-> [st.tasks EXCEPT ![t].status = "uploading",
                                        ![t].startCalls = @ + 1],
           queue   |-> Dequeue(st.queue),
           workers |-> [st.workers EXCEPT
                            ![w] = Worker("start", t, << >>, << >>, FALSE)] ]
    ELSE [ st EXCEPT !.workers[w] = FinishedWorker ]

\* uploadWorker after uploadFile settled for its task.
WorkerAfterFile(st, w, failed) ==
    IF WorkerContinues(failed)
    THEN WorkerLoop(st, w)
    ELSE [ st EXCEPT !.workers[w] = FinishedWorker ]

\* `for (let i = 0; i < concurrency; i++) inProgress.push(uploadWorker())`:
\* each worker runs to its first await as it is created.
RECURSIVE StartFileWorkers(_, _, _)
StartFileWorkers(i, concurrency, st) ==
    IF i > concurrency THEN st
    ELSE StartFileWorkers(i + 1, concurrency,
            WorkerLoop([st EXCEPT !.workers = Append(@, FinishedWorker)], i))

\* Mutant: the join waits for the first worker only.
FirstWorkerFinished(ws) ==
    ws = << >> \/ \E w \in DOMAIN ws : ws[w].pc = "finished"

\* `await Promise.all(inProgress)`: workers never reject, so the join is over
\* when every worker has finished.
AllWorkersFinished(ws) == \A w \in DOMAIN ws : ws[w].pc = "finished"

\* Mutant: the batch never reports its failures.
UploadFilesNeverThrows(errors) == FALSE

\* `if (hasErrors) throw new Error('Some files failed to upload')`
UploadFilesThrows(errors) == errors

\* Mutant: the catch block puts the task back to 'pending'.
StatusReset(current) == "pending"

\* uploadFile's catch block: `task.status = 'failed'`.
StatusAfterCatch(current) == "failed"

\* The task and worker state after uploadFile threw for worker w's task.
FileFailed(st, w) ==
    LET t == st.workers[w].task
        st1 == [st EXCEPT !.tasks[t].status = StatusAfterCatch(@)]
    IN WorkerAfterFile(st1, w, TRUE)

St == [tasks |-> tasks, queue |-> queue, workers |-> workers]

SetSt(st) ==
    /\ tasks' = st.tasks
    /\ queue' = st.queue
    /\ workers' = st.workers

-----------------------------------------------------------------------------
(* The part-level worker pool of uploadPartsWithConcurrency.               *)

\* Mutant: one worker per part, whatever the configured parallelism.
PartConcurrencyUncapped(concurrency, len) == len

\* `Math.min(concurrency, urlInfos.length)`
PartConcurrency(concurrency, len) == Min(concurrency, len)

\* Insert part number p into the ascending sequence s.
RECURSIVE InsertPart(_, _)
InsertPart(p, s) ==
    IF s = << >> THEN << p >>
    ELSE IF p < Head(s) THEN << p >> \o s
    ELSE << Head(s) >> \o InsertPart(p, Tail(s))

RECURSIVE SortAscending(_)
SortAscending(parts) ==
    IF parts = << >> THEN << >>
    ELSE InsertPart(Head(parts), SortAscending(Tail(parts)))

\* Mutant: the manifest is returned in completion order.
UnsortedParts(parts) == parts

\* `[...completedParts, ...uploadedParts].sort((a, b) => a.part_number - b.part_number)`
SortParts(parts) == SortAscending(parts)

\* uploadWorker (of parts) at its loop test: `while (queue.length > 0)`,
\* `queue.shift()`, then uploadPart up to its first await: the positioned
\* read is issued on the handle as it is now.  m = the file's multipart state.
PartWorkerLoop(m, i) ==
    IF Len(m.queue) > 0
    THEN [ m EXCEPT !.queue = Tail(@),
                    !.pw[i] = [pc |-> "uploading", part |-> Head(m.queue),
                               closed |-> (m.handle = "closed")] ]
    ELSE [ m EXCEPT !.pw[i] = [pc |-> "done", part |-> 0, closed |-> FALSE] ]

\* `for (...) inProgress.push(uploadWorker())`
RECURSIVE StartPartWorkers(_, _, _)
StartPartWorkers(i, concurrency, m) ==
    IF i > concurrency THEN m
    ELSE StartPartWorkers(i + 1, concurrency,
            PartWorkerLoop([m EXCEPT !.pw = Append(@, [pc |-> "done", part |-> 0,
                                                       closed |-> FALSE])], i))

\* Mutant: the join waits for every worker and ignores rejections.
PromiseAllSettled(pw) ==
    IF \A i \in DOMAIN pw : pw[i].pc \in {"done", "rejected"}
    THEN "resolved" ELSE "pending"

\* `await Promise.all(inProgress)`: rejected as soon as one worker rejects,
\* resolved when every worker has returned.
PromiseAll(pw) ==
    IF \E i \in DOMAIN pw : pw[i].pc = "rejected" THEN "rejected"
    ELSE IF \A i \in DOMAIN pw : pw[i].pc = "done" THEN "resolved"
    ELSE "pending"

\* Mutant: uploadMultipart without its finally block.
HandleLeftOpen(m) == m

\* uploadMultipart's finally block: `await fileHandle.close()`.
CloseHandle(m) == [ m EXCEPT !.handle = "closed", !.closes = @ + 1 ]

\* Dead locals are dropped from the state: once uploadMultipart has returned
\* or thrown nothing reads `results` or the first rejection again, and once
\* no worker is left running nothing reads the queue or the workers.
Collect(m) ==
    IF ~m.returned THEN m
    ELSE IF \A i \in DOMAIN m.pw : m.pw[i].pc # "uploading"
    THEN [ m EXCEPT !.queue = << >>, !.results = << >>, !.pw = << >>,
                    !.putAttempts = 0 ]
    ELSE [ m EXCEPT !.results = << >>, !.putAttempts = 0 ]

\* Part uploads (positioned read plus PUT of one part) in progress for task t.
PartsInProgress(t) ==
    Cardinality({ i \in DOMAIN mp[t].pw : mp[t].pw[i].pc = "uploading" })

-----------------------------------------------------------------------------
(* Uploader.upload.                                                        *)

\* createUploadCommand's action handler: `process.exit(1)` on any error; a
\* run that returns ends with status 0.
Exit(code, error) ==
    /\ exited' = TRUE
    /\ exitCode' = code
    /\ runError' = error

\* Mutant: the run goes on whatever the inputs are.
ValidationSkipped(c) == TRUE

\* handleUpload's checks before the Uploader is built: validateWorkerUrl,
\* the uploader name, validateLogicalPath, validateParentPi,
\* validateMetadata, parallel >= 1, parallel-parts >= 1, the directory.
InputsValid(c) ==
    /\ c.invalid = "none"
    /\ c.parallelUploads >= 1
    /\ c.parallelParts >= 1

\* handleUpload up to `await uploader.upload()`: a failed check throws
\* ValidationError and the command handler exits.
Validate ==
    /\ phase = "validate"
    /\ ~exited
    /\ IF InputsValid(config)
       THEN /\ phase' = "scan"
            /\ UNCHANGED << exited, exitCode, runError >>
       ELSE /\ phase' = "failed"
            /\ Exit(1, "ValidationError")
    /\ UNCHANGED << config, scanned, tasks, queue, workers, hasErrors,
                    filesResult, mp, issued, initCalls, initAcked,
                    finalizeCalls >>
    /\ UNCHANGED aside

\* Mutant: a dry run goes on to initializeBatch.
DryRunUploads(c) == FALSE

\* upload(): `if (this.config.dryRun) { printDryRunSummary(...); return; }`
DryRunReturns(c) == c.dryRun

\* scanFiles returns n files; in dry-run mode printDryRunSummary and return,
\* otherwise initializeBatch calls client.initBatch.
ScanDone(n) ==
    /\ phase = "scan"
    /\ ~exited
    /\ scanned' = n
    /\ IF DryRunReturns(config)
       THEN /\ phase' = "done"
            /\ Exit(0, "none")
            /\ UNCHANGED initCalls
       ELSE /\ phase' = "init"
            /\ initCalls' = initCalls + 1
            /\ UNCHANGED << exited, exitCode, runError >>
    /\ UNCHANGED << config, tasks, queue, workers, hasErrors, filesResult, mp,
                    issued, initAcked, finalizeCalls >>
    /\ UNCHANGED aside

\* scanDirectory throws: ScanError (the directory), ValidationError (the
\* root path, the batch size ceiling).  upload rethrows.
ScanFail(error) ==
    /\ phase = "scan"
    /\ ~exited
    /\ phase' = "failed"
    /\ Exit(1, error)
    /\ UNCHANGED << config, scanned, tasks, queue, workers, hasErrors,
                    filesResult, mp, issued, initCalls, initAcked,
                    finalizeCalls >>
    /\ UNCHANGED aside

\* client.initBatch settles.  When it returns, initializeBatch builds the
\* context with one 'pending' task per scanned file; when it throws, upload
\* rethrows.
InitRespond(out) ==
    /\ phase = "init"
    /\ ~exited
    /\ IF out.ok
       THEN /\ phase' = "context"
            /\ initAcked' = TRUE
            /\ tasks' = [i \in 1..scanned |-> NewTask]
            /\ mp' = [i \in 1..scanned |-> NoMultipart]
            /\ UNCHANGED << exited, exitCode, runError >>
       ELSE /\ phase' = "failed"
            /\ Exit(1, "Error")
            /\ UNCHANGED << tasks, mp, initAcked >>
    /\ UNCHANGED << config, scanned, queue, workers, hasErrors, filesResult,
                    issued, initCalls, finalizeCalls >>
    /\ UNCHANGED aside

\* uploadFiles is called with the context: `const queue = [...context.tasks]`
\* and the workers are started.
UploadFilesStart ==
    /\ phase = "context"
    /\ ~exited
    /\ phase' = "files"
    /\ SetSt(StartFileWorkers(1, FileConcurrency(config.parallelUploads, Len(tasks)),
                [ tasks   |-> tasks,
                  queue   |-> [i \in 1..Len(tasks) |-> i],
                  workers |-> << >> ]))
    /\ UNCHANGED << config, scanned, hasErrors, filesResult, mp, issued,
                    initCalls, initAcked, finalizeCalls, exited, exitCode, runError >>
    /\ UNCHANGED aside

\* uploadFiles after `await Promise.all(inProgress)`: throw if hasErrors,
\* otherwise return, and upload calls client.finalizeBatch.
UploadFilesJoin ==
    /\ phase = "files"
    /\ ~exited
    /\ AllWorkersFinished(workers)
    /\ IF UploadFilesThrows(hasErrors)
       THEN /\ filesResult' = "threw"
            /\ phase' = "failed"
            /\ Exit(1, "Error")
            /\ UNCHANGED finalizeCalls
       ELSE /\ filesResult' = "returned"
            /\ phase' = "finalize"
            /\ finalizeCalls' = finalizeCalls + 1
            /\ UNCHANGED << exited, exitCode, runError >>
    /\ UNCHANGED << config, scanned, tasks, queue, workers, hasErrors, mp,
                    issued, initCalls, initAcked >>
    /\ UNCHANGED aside

\* client.finalizeBatch settles: upload returns or rethrows.
FinalizeRespond(out) ==
    /\ phase = "finalize"
    /\ ~exited
    /\ IF out.ok
       THEN phase' = "done" /\ Exit(0, "none")
       ELSE phase' = "failed" /\ Exit(1, "Error")
    /\ UNCHANGED << config, scanned, tasks, queue, workers, hasErrors,
                    filesResult, mp, issued, initCalls, initAcked,
                    finalizeCalls >>
    /\ UNCHANGED aside

-----------------------------------------------------------------------------
(* Uploader.uploadFile, one action per awaited operation.                  *)

\* uploadFile threw for worker w's task: the catch block, then the worker's
\* catch (`hasErrors = true`) and its loop.
Throw(st, w) ==
    /\ SetSt(FileFailed(st, w))
    /\ hasErrors' = TRUE

\* Worker w awaits the operation its pc names.
Awaits(w, pc) ==
    /\ ~exited
    /\ w \in DOMAIN workers
    /\ workers[w].pc = pc

\* client.startFileUpload returns descriptor d to worker w.  The transfer it
\* names begins: uploadSimple (readFile, then the PUT) or uploadMultipart
\* (fs.open); a descriptor that lacks the fields of its type throws.
StartAckWithin(budget, w, d) ==
    /\ Awaits(w, "start")
    /\ issued + Len(d.presigned_urls) <= budget
    /\ issued' = issued + Len(d.presigned_urls)
    /\ LET t == workers[w].task
           acked == [St EXCEPT !.tasks[t].startAcked = TRUE,
                               !.tasks[t].uploadType = d.upload_type]
       IN IF ~d.present
          THEN Throw(acked, w)
          ELSE /\ SetSt([acked EXCEPT
                    !.workers[w].targets = d.presigned_urls,
                    !.workers[w].pc =
                        IF d.upload_type = "simple" THEN "simple" ELSE "open"])
               /\ UNCHANGED hasErrors
    /\ UNCHANGED << config, phase, scanned, filesResult, mp, initCalls,
                    initAcked, finalizeCalls, exited, exitCode, runError >>
    /\ UNCHANGED aside

StartAck(w, d) == StartAckWithin(MaxParts, w, d)

\* client.startFileUpload throws for worker w.
StartFail(w) ==
    /\ Awaits(w, "start")
    /\ \E out \in CoordOutcomes : ~out.ok
    /\ Throw(St, w)
    /\ UNCHANGED << config, phase, scanned, filesResult, mp, issued, initCalls,
                    initAcked, finalizeCalls, exited, exitCode, runError >>
    /\ UNCHANGED aside

\* uploadSimple settles for worker w: client.completeFileUpload is called,
\* or uploadFile's catch block runs.
SimpleRespond(w, out) ==
    /\ Awaits(w, "simple")
    /\ LET t == workers[w].task IN
       IF out.ok
       THEN /\ SetSt([St EXCEPT !.tasks[t].transferred = TRUE,
                                !.tasks[t].completeCalls = @ + 1,
                                !.workers[w].pc = "complete"])
            /\ UNCHANGED hasErrors
       ELSE Throw([St EXCEPT !.tasks[t].putAttempts = out.putAttempts], w)
    /\ UNCHANGED << config, phase, scanned, filesResult, mp, issued, initCalls,
                    initAcked, finalizeCalls, exited, exitCode, runError >>
    /\ UNCHANGED aside

\* fs.open settles for worker w's uploadMultipart.  On success the part
\* workers are started (completedParts is empty: every target is queued);
\* on failure uploadMultipart throws UploadError.
OpenRespond(w, ok) ==
    /\ Awaits(w, "open")
    /\ LET t == workers[w].task IN
       IF ok
       THEN /\ mp' = [mp EXCEPT ![t] =
                        StartPartWorkers(1,
                            PartConcurrency(config.parallelParts,
                                            Len(workers[w].targets)),
                            [ mp[t] EXCEPT !.handle = "open",
                                           !.queue = workers[w].targets ])]
            /\ SetSt([St EXCEPT !.workers[w].pc = "parts"])
            /\ UNCHANGED hasErrors
       ELSE /\ UNCHANGED mp
            /\ Throw(St, w)
    /\ UNCHANGED << config, phase, scanned, filesResult, issued, initCalls,
                    initAcked, finalizeCalls, exited, exitCode, runError >>
    /\ UNCHANGED aside

\* uploadPart settles for part worker i of task t: the positioned read and
\* the PUT, inside retryWithBackoff.  When it returns, the part is pushed to
\* results and the worker loops; when it throws, the worker rejects.
PartRespond(t, i, out) ==
    /\ ~exited
    /\ t \in DOMAIN mp
    /\ i \in DOMAIN mp[t].pw
    /\ mp[t].pw[i].pc = "uploading"
    /\ out \in (IF mp[t].pw[i].closed THEN ClosedReadOutcomes ELSE PartOutcomes)
    /\ LET m == mp[t] IN
       IF out.ok
       THEN /\ mp' = [mp EXCEPT ![t] = Collect(PartWorkerLoop(
                        [m EXCEPT !.results = Append(@, m.pw[i].part)], i))]
            /\ UNCHANGED tasks
       ELSE /\ mp' = [mp EXCEPT ![t] = Collect(
                        [m EXCEPT !.pw[i].pc = "rejected",
                                  !.putAttempts =
                                      IF PromiseAll(m.pw) = "pending"
                                      THEN out.putAttempts ELSE @])]
            /\ tasks' = [tasks EXCEPT ![t].partFailed = TRUE]
    /\ UNCHANGED << config, phase, scanned, queue, workers, hasErrors,
                    filesResult, issued, initCalls, initAcked, finalizeCalls,
                    exited, exitCode, runError >>
    /\ UNCHANGED aside

\* uploadMultipart after `await Promise.all(inProgress)` settled: the
\* finally block closes the handle; then the sorted manifest is returned and
\* client.completeFileUpload is called, or the rejection is rethrown.
MultipartSettle(w) ==
    /\ Awaits(w, "parts")
    /\ LET t == workers[w].task
           m == mp[t]
       IN /\ PromiseAll(m.pw) # "pending"
          /\ mp' = [mp EXCEPT ![t] =
                    Collect([CloseHandle(m) EXCEPT !.returned = TRUE])]
          /\ IF PromiseAll(m.pw) = "resolved"
             THEN /\ SetSt([St EXCEPT
                        !.tasks[t].transferred = TRUE,
                        !.tasks[t].completeCalls = @ + 1,
                        !.workers[w].manifest = SortParts(m.results),
                        !.workers[w].outOfOrder =
                            (m.results # SortAscending(m.results)),
                        !.workers[w].pc = "complete"])
                  /\ UNCHANGED hasErrors
             ELSE Throw([St EXCEPT !.tasks[t].putAttempts = m.putAttempts], w)
    /\ UNCHANGED << config, phase, scanned, filesResult, issued, initCalls,
                    initAcked, finalizeCalls, exited, exitCode, runError >>
    /\ UNCHANGED aside

\* Mutant: the status is set whether complete-file returned or threw.
CompletedEitherWay(acked) == "completed"

\* uploadFile after `await this.client.completeFileUpload(...)`:
\* `task.status = 'completed'` when it returned, the catch block when it threw.
StatusAfterComplete(acked) ==
    IF acked THEN "completed" ELSE StatusAfterCatch("uploading")

\* client.completeFileUpload settles for worker w, which loops.
CompleteRespond(w, out) ==
    /\ Awaits(w, "complete")
    /\ hasErrors' = (hasErrors \/ ~out.ok)
    /\ LET t == workers[w].task IN
       SetSt(WorkerAfterFile(
                [St EXCEPT !.tasks[t].completeAcked = out.ok,
                           !.tasks[t].status = StatusAfterComplete(out.ok)],
                w, ~out.ok))
    /\ UNCHANGED << config, phase, scanned, filesResult, mp, issued, initCalls,
                    initAcked, finalizeCalls, exited, exitCode, runError >>
    /\ UNCHANGED aside

-----------------------------------------------------------------------------

Next ==
    \/ Validate
    \/ \E n \in 0..MaxFiles : ScanDone(n)
    \/ \E error \in {"ScanError", "ValidationError"} : ScanFail(error)
    \/ \E out \in CoordOutcomes : InitRespond(out)
    \/ UploadFilesStart
    \/ \E w \in 1..MaxFiles, d \in Descriptors : StartAck(w, d)
    \/ \E w \in 1..MaxFiles : StartFail(w)
    \/ \E w \in 1..MaxFiles, out \in SimpleOutcomes : SimpleRespond(w, out)
    \/ \E w \in 1..MaxFiles, ok \in BOOLEAN : OpenRespond(w, ok)
    \/ \E t \in 1..MaxFiles, i \in 1..MaxParts, out \in PartOutcomes \cup ClosedReadOutcomes :
          PartRespond(t, i, out)
    \/ \E w \in 1..MaxFiles : MultipartSettle(w)
    \/ \E w \in 1..MaxFiles, out \in CoordOutcomes : CompleteRespond(w, out)
    \/ UploadFilesJoin
    \/ \E out \in CoordOutcomes : FinalizeRespond(out)

Spec == Init /\ [][Next]_vars

\* Every awaited operation settles and the event loop then runs the code
\* that waits for it: the run never stops while a step is possible.
LiveSpec == Spec /\ WF_vars(Next)

\* The process receives SIGINT.  index.ts and the upload command register
\* no signal handler, so the default disposition ends the process at once:
\* no finally block and no cleanup runs.
Interrupt ==
    /\ ~exited
    /\ Exit(130, "SIGINT")
    /\ UNCHANGED << config, phase, scanned, tasks, queue, workers, hasErrors,
                    filesResult, mp, issued, initCalls, initAcked,
                    finalizeCalls >>
    /\ UNCHANGED aside

\* An upload run that may be interrupted at any point.
SignalSpec == Init /\ [][Next \/ Interrupt]_vars

\* Runs with one file worker and MaxParts part workers in which the
\* coordinator may issue MaxParts part targets to every file, or one target
\* more than there are part workers to one file.
PoolDescriptors ==
    Descriptors \cup
    { [upload_type |-> "multipart", present |-> TRUE,
       presigned_urls |-> [i \in 1..(MaxParts + 1) |-> i]] }

PoolInit ==
    /\ Init
    /\ config = [dryRun |-> FALSE, invalid |-> "none", parallelUploads |-> 1,
                 parallelParts |-> MaxParts]

PoolSpec ==
    PoolInit
    /\ [][Next \/ \E w \in 1..MaxFiles, d \in PoolDescriptors :
                     StartAckWithin(MaxFiles * MaxParts, w, d)]_vars

-----------------------------------------------------------------------------
(* retryWithBackoff run on its own, one step per call of the operation and *)
(* per sleep: the operation may throw a different error on each call.      *)

\* Largest maxRetries, initialDelay and maxDelay (in time units) tried.
MaxRetriesBound == 2
MaxInitialDelay == 2
MaxDelayBound == 3

\* The variables of an upload run.
uploadVars == << config, phase, scanned, tasks, queue, workers, hasErrors,
                 filesResult, mp, issued, initCalls, initAcked, finalizeCalls,
                 exited, exitCode, runError >>

\* No upload run: the command was not started.
NoUpload ==
    /\ config = [dryRun |-> TRUE, invalid |-> "none",
                 parallelUploads |-> 1, parallelParts |-> 1]
    /\ phase = "idle"
    /\ scanned = 0
    /\ tasks = << >>
    /\ queue = << >>
    /\ workers = << >>
    /\ hasErrors = FALSE
    /\ filesResult = "none"
    /\ mp = << >>
    /\ issued = 0
    /\ initCalls = 0
    /\ initAcked = FALSE
    /\ finalizeCalls = 0
    /\ exited = FALSE
    /\ exitCode = 0
    /\ runError = "none"

\* Error values an operation may throw: what handleError makes of coordinator
\* failures, raw axios and file-system errors, and a wrapped transport error.
RetryErrors ==
    { handleError(AxiosError("ECONNABORTED", 0)),
      handleError(AxiosError("ERR_BAD_RESPONSE", 500)),
      handleError(AxiosError("ERR_BAD_REQUEST", 400)),
      handleError(AxiosError("ERR_BAD_REQUEST", 404)),
      WorkerAPIError(0),
      AxiosError("ECONNRESET", 0),
      AxiosError("ERR_BAD_RESPONSE", 500),
      UploadError(AxiosError("ECONNRESET", 0)),
      PlainError("ENOENT"), PlainError("none") }
    \cup { PlainError(c) : c \in TransportCodes }

NoError == Err("none", "none", 0, "none", "none")

RetryInit ==
    /\ NoUpload
    /\ sc = Idle
    /\ pp = Idle
    /\ cf = Idle
    /\ uf = Idle
    /\ \E maxRetries \in 0..MaxRetriesBound,
          initialDelay \in 1..MaxInitialDelay,
          maxDelay \in 1..MaxDelayBound :
          rt = [ pc |-> "call",            \* "call", "sleep", "returned", "threw"
                 maxRetries |-> maxRetries,
                 initialDelay |-> initialDelay,
                 maxDelay |-> maxDelay,
                 attempt |-> 0,            \* the loop variable
                 calls |-> 0,              \* calls of fn so far
                 first |-> NoError,        \* the error of the first call
                 last |-> NoError,         \* lastError
                 delays |-> << >>,         \* the delays slept, in order
                 thrown |-> [error |-> NoError, call |-> 0] ]
                                           \* the error rethrown and the call
                                           \*   that threw it

\* Mutant: the attempts are exhausted one attempt early.
ExhaustedEarly(attempt, maxRetries) == attempt + 1 >= maxRetries

\* `if (attempt >= opts.maxRetries)`
Exhausted(attempt, maxRetries) == attempt >= maxRetries

\* Mutant: every error is retried.
AlwaysRetry(error) == TRUE

\* `opts.shouldRetry(error)` with the default shouldRetry.
ShouldRetry(error) == isRetryableError(error)

\* Mutant: the delay is not capped.
UncappedDelay(initialDelay, attempt, maxDelay) == initialDelay * 2^attempt

\* `Math.min(opts.initialDelay * Math.pow(2, attempt), opts.maxDelay)`
BackoffDelay(initialDelay, attempt, maxDelay) ==
    Min(initialDelay * 2^attempt, maxDelay)

\* `return await fn()` returns.
RetryFnReturns ==
    /\ rt.pc = "call"
    /\ rt' = [rt EXCEPT !.pc = "returned", !.calls = @ + 1]
    /\ UNCHANGED << uploadVars, sc, pp, cf, uf >>

\* fn throws e: the catch block rethrows it (attempts exhausted, or the
\* error is not retryable) or computes the delay and sleeps.
RetryFnThrows(e) ==
    /\ rt.pc = "call"
    /\ LET caught == [rt EXCEPT !.calls = @ + 1,
                                !.last = e,
                                !.first = IF rt.calls = 0 THEN e ELSE @]
       IN IF Exhausted(rt.attempt, rt.maxRetries) \/ ~ShouldRetry(e)
          THEN rt' = [caught EXCEPT !.pc = "threw",
                                    !.thrown = [error |-> e, call |-> caught.calls]]
          ELSE rt' = [caught EXCEPT
                        !.pc = "sleep",
                        !.delays = Append(@, BackoffDelay(rt.initialDelay,
                                                rt.attempt, rt.maxDelay))]
    /\ UNCHANGED << uploadVars, sc, pp, cf, uf >>

\* `await sleep(delay)` is over: `attempt++` and the next call of fn.
RetrySleepDone ==
    /\ rt.pc = "sleep"
    /\ rt' = [rt EXCEPT !.pc = "call", !.attempt = @ + 1]
    /\ UNCHANGED << uploadVars, sc, pp, cf, uf >>

RetryNext ==
    \/ RetryFnReturns
    \/ \E e \in RetryErrors : RetryFnThrows(e)
    \/ RetrySleepDone

RetrySpec == RetryInit /\ [][RetryNext]_vars

-----------------------------------------------------------------------------
(* scanDirectory run on its own.  The walk is followed one directory and   *)
(* one entry at a time; what the file system holds (override files,        *)
(* entries) is chosen as the walk reaches it.                              *)

\* Deepest directory chain walked, counting the scan root.
MaxDepth == 3
\* Most files a scan collects.
MaxScanFiles == 2
\* MAX_FILE_SIZE and MAX_BATCH_SIZE, in model size units.
MaxFileSize == 2
MaxBatchSize == 3

\* ProcessingConfig values, a field being "true" or "false":
\* DEFAULT_PROCESSING_CONFIG and its opposite.
Policy(ocr, describe, pinax) == [ocr |-> ocr, describe |-> describe, pinax |-> pinax]
DEFAULT_PROCESSING_CONFIG == Policy("true", "true", "true")
GlobalConfigs == { DEFAULT_PROCESSING_CONFIG, Policy("false", "false", "false") }

\* What JSON.parse gives for the content of an .arke-process.json: null, or
\* an object in which a field is "true", "false", "null" or missing
\* ("undefined").
Override(ocr, describe, pinax) ==
    [isNull |-> FALSE, ocr |-> ocr, describe |-> describe, pinax |-> pinax]
Null == [isNull |-> TRUE, ocr |-> "undefined", describe |-> "undefined",
         pinax |-> "undefined"]
ParsedOverrides ==
    { Null,
      Override("false", "undefined", "undefined"),
      Override("null", "true", "undefined") }

\* An .arke-process.json as loadDirectoryProcessingConfig finds it.
ConfigFiles ==
    { [kind |-> "absent", value |-> Null], [kind |-> "unparseable", value |-> Null] }
    \cup { [kind |-> "json", value |-> v] : v \in ParsedOverrides }

\* loadDirectoryProcessingConfig: the parsed content, or null when readFile
\* or JSON.parse throws.
loadDirectoryProcessingConfig(file) ==
    IF file.kind = "json" THEN file.value ELSE Null

\* Mutant: the override's field is taken even when it is missing.
TakeOverride(a, b) == a

\* `a ?? b`
Coalesce(a, b) == IF a \in {"undefined", "null"} THEN b ELSE a

mergeProcessingConfig(defaults, override) ==
    IF override.isNull THEN defaults
    ELSE [ ocr      |-> Coalesce(override.ocr, defaults.ocr),
           describe |-> Coalesce(override.describe, defaults.describe),
           pinax    |-> Coalesce(override.pinax, defaults.pinax) ]

\* String.prototype.toLowerCase on the extensions of the model.
toLowerCase(ext) ==
    CASE ext = ".PDF" -> ".pdf"
      [] ext = ".Json" -> ".json"
      [] ext = ".TIF" -> ".tif"
      [] OTHER -> ext

\* ALLOWED_EXTENSIONS (the ones the model's files meet), and a caller's
\* list written in upper case.
ALLOWED_EXTENSIONS == {".pdf", ".json", ".txt"}
AllowedLists == { ALLOWED_EXTENSIONS, {".PDF"} }

validateFileExtension(ext, allowed) == toLowerCase(ext) \in allowed

\* Mutant: any size passes.
AnyFileSize(size) == TRUE

\* validateFileSize does not throw.
validateFileSize(size) == size > 0 /\ size <= MaxFileSize

\* validateBatchSize does not throw.
validateBatchSize(totalSize) == totalSize <= MaxBatchSize

\* validateLogicalPath does not throw, for the logical path of an entry:
\* path.posix.join(rootPath, relPath) of a validated root path starts with
\* "/" and has no "." or ".." segment, so only the characters can fail.
validateLogicalPath(path) == path.absolute /\ ~path.invalidChars

LogicalPath(entry) == [absolute |-> TRUE, invalidChars |-> entry.invalidChars]

\* A regular file met by the walk: its extension, its size, whether its
\* name has a character of INVALID_PATH_CHARS, whether it can be read and
\* hashed, and whether it is an .arke-process.json.
Entry(ext, size, invalidChars, readable, isConfig) ==
    [ext |-> ext, size |-> size, invalidChars |-> invalidChars,
     readable |-> readable, isConfig |-> isConfig]

Entries ==
    { Entry(".pdf", 1, FALSE, TRUE, FALSE),
      Entry(".PDF", MaxFileSize, FALSE, TRUE, FALSE),
      Entry(".exe", 1, FALSE, TRUE, FALSE),
      Entry(".pdf", 0, FALSE, TRUE, FALSE),
      Entry(".pdf", MaxFileSize + 1, FALSE, TRUE, FALSE),
      Entry(".pdf", 1, TRUE, TRUE, FALSE),
      Entry(".pdf", 1, FALSE, FALSE, FALSE),
      Entry(".json", 1, FALSE, TRUE, TRUE) }

\* Insert f after the elements of the size-sorted s that are not larger.
RECURSIVE InsertBySize(_, _)
InsertBySize(f, s) ==
    IF s = << >> THEN << f >>
    ELSE IF s[Len(s)].size <= f.size THEN Append(s, f)
    ELSE Append(InsertBySize(f, SubSeq(s, 1, Len(s) - 1)), s[Len(s)])

RECURSIVE StableSortBySize(_)
StableSortBySize(files) ==
    IF files = << >> THEN << >>
    ELSE InsertBySize(files[Len(files)],
                      StableSortBySize(SubSeq(files, 1, Len(files) - 1)))

\* Mutant: the list is returned in the order the walk found the files.
DiscoveryOrder(files) == files

\* `files.sort((a, b) => a.size - b.size)`
SortBySize(files) == StableSortBySize(files)

NoResult == [files |-> << >>, totalSize |-> 0, totalFiles |-> 0]

ScanInit ==
    /\ NoUpload
    /\ rt = Idle
    /\ pp = Idle
    /\ cf = Idle
    /\ uf = Idle
    /\ \E global \in GlobalConfigs, allowed \in AllowedLists :
          sc = [ pc |-> "stat",        \* "stat", "walk", "done", "threw"
                 global |-> global,    \* globalProcessingConfig
                 allowed |-> allowed,  \* options.allowedExtensions || ALLOWED_EXTENSIONS
                 frames |-> << >>,     \* the walk calls in progress, root first:
                                       \*   the directory's parsed override and
                                       \*   its currentProcessingConfig
                 files |-> << >>,      \* `files`, in the order found
                 totalSize |-> 0,
                 skipped |-> FALSE,    \* a file was skipped
                 error |-> "none",     \* class of the error thrown
                 result |-> NoResult ] \* the ScanResult returned

\* processFile for entry e in the directory of the innermost walk call.
processFile(s, e) ==
    IF \/ e.isConfig
       \/ ~validateFileExtension(e.ext, s.allowed)
       \/ ~validateFileSize(e.size)
       \/ ~validateLogicalPath(LogicalPath(e))
       \/ ~e.readable
    THEN [ s EXCEPT !.skipped = TRUE ]
    ELSE [ s EXCEPT
             !.files = Append(@, [ ext |-> e.ext, size |-> e.size,
                                   invalidChars |-> e.invalidChars,
                                   processingConfig |-> s.frames[Len(s.frames)].config ]),
             !.totalSize = @ + e.size ]

\* scanDirectory after `await walk(dirPath)`: validateBatchSize, the sort
\* and the ScanResult.
ScanReturn(s) ==
    IF ~validateBatchSize(s.totalSize)
    THEN [ s EXCEPT !.pc = "threw", !.error = "ValidationError", !.frames = << >> ]
    ELSE [ s EXCEPT !.pc = "done", !.frames = << >>,
                    !.result = [ files |-> SortBySize(s.files),
                                 totalSize |-> s.totalSize,
                                 totalFiles |-> Len(s.files) ] ]

\* scanDirectory up to the walk: fs.stat of the directory and
\* validateLogicalPath of the root path.
ScanStat(error) ==
    /\ sc.pc = "stat"
    /\ sc' = IF error = "none" THEN [sc EXCEPT !.pc = "walk"]
             ELSE [sc EXCEPT !.pc = "threw", !.error = error]
    /\ UNCHANGED << uploadVars, rt, pp, cf, uf >>

\* walk is called for the scan root or for a subdirectory of the directory
\* being walked: the override is loaded and merged, the entries are listed.
\* A directory that cannot be listed is left at once.
WalkEnter(file, listable) ==
    /\ sc.pc = "walk"
    /\ Len(sc.frames) < MaxDepth
    /\ LET override == loadDirectoryProcessingConfig(file)
           frame == [ override |-> override,
                      config |-> mergeProcessingConfig(sc.global, override) ]
       IN sc' = IF listable THEN [sc EXCEPT !.frames = Append(@, frame)]
                ELSE IF sc.frames = << >> THEN ScanReturn(sc)
                ELSE sc
    /\ UNCHANGED << uploadVars, rt, pp, cf, uf >>

\* The walk meets a regular file in the directory being walked.
WalkFile(e) ==
    /\ sc.pc = "walk"
    /\ sc.frames # << >>
    /\ Len(sc.files) < MaxScanFiles
    /\ sc' = processFile(sc, e)
    /\ UNCHANGED << uploadVars, rt, pp, cf, uf >>

\* The entries of the directory being walked are exhausted: walk returns to
\* the walk of the parent directory, or to scanDirectory.
WalkReturn ==
    /\ sc.pc = "walk"
    /\ sc.frames # << >>
    /\ sc' = IF Len(sc.frames) > 1
             THEN [sc EXCEPT !.frames = SubSeq(@, 1, Len(@) - 1)]
             ELSE ScanReturn(sc)
    /\ UNCHANGED << uploadVars, rt, pp, cf, uf >>

ScanNext ==
    \/ \E error \in {"none", "ScanError", "ValidationError"} : ScanStat(error)
    \/ \E file \in ConfigFiles, listable \in BOOLEAN : WalkEnter(file, listable)
    \/ \E e \in Entries : WalkFile(e)
    \/ WalkReturn

ScanSpec == ScanInit /\ [][ScanNext]_vars

-----------------------------------------------------------------------------
(* PreprocessorOrchestrator.run with a TiffConverter, run on their own.     *)

\* Files in the list handed to run().
MaxPreFiles == 3

TiffModes == {"convert", "preserve", "both", "none"}

\* computeFileCID: the content address of a file's bytes (SHA-256, so
\* different bytes give different addresses).
Hash(bytes) == << "cid", bytes >>

\* `stats.size`: the length of a file's bytes.
ByteLength(bytes) == << "length", bytes >>

\* A FileInfo of the scanner: logicalPath (directory, base name, extension),
\* fileName (base name, extension), localPath, the file on disk, the content
\* address and size of its bytes, and the processing policy of its directory.
ScannedFile(dir, base, ext) ==
    [ logicalPath |-> << dir, base, ext >>,
      fileName |-> << base, ext >>,
      localPath |-> << dir, base, ext >>,
      cid |-> Hash(<< "file", dir, base, ext >>),
      size |-> ByteLength(<< "file", dir, base, ext >>),
      processingConfig |-> IF dir = "/" THEN "inherited" ELSE "override" ]

\* The files of the scanned tree.
PreFiles ==
    { ScannedFile("/", "a", ".tif"), ScannedFile("/", "a", ".tiff"),
      ScannedFile("/", "a", ".jpg"), ScannedFile("/", "b", ".txt"),
      ScannedFile("/d", "a", ".TIF") }

\* The lists a scan can return: each file of the tree at most once.
PreInputs ==
    { fs \in UNION { [1..n -> PreFiles] : n \in 0..MaxPreFiles } :
        \A i, j \in DOMAIN fs : i # j => fs[i] # fs[j] }

\* TiffConverter.isTiffFile
isTiffFile(fileName) == toLowerCase(fileName[2]) \in {".tif", ".tiff"}

\* `sharp(file.localPath).jpeg({quality}).toFile(jpegPath)`: the bytes
\* written, the JPEG rendering of that file.
JpegBytes(file) == << "jpeg", file.localPath >>

\* The FileInfo convertToJpeg builds: <base>.jpg in the temp directory,
\* with the logical directory of the original, the size and content address
\* read back from the file just written, and the original's policy.
JpegFile(file) ==
    [ logicalPath |-> << file.logicalPath[1], file.fileName[1], ".jpg" >>,
      fileName |-> << file.fileName[1], ".jpg" >>,
      localPath |-> << "tmp", file.fileName[1], ".jpg" >>,
      cid |-> Hash(JpegBytes(file)),
      size |-> ByteLength(JpegBytes(file)),
      processingConfig |-> file.processingConfig ]

\* The registered stages: the TiffConverter, alone or with a second stage
\* before or after it.
Registered ==
    { << "TiffConverter" >>, << "TiffConverter", "Other" >>,
      << "Other", "TiffConverter" >> }

\* shouldRun of a stage: TiffConverter.shouldRun; the second stage applies
\* to every list.
shouldRun(stage, files, mode) ==
    IF stage = "TiffConverter"
    THEN mode # "none" /\ \E i \in DOMAIN files : isTiffFile(files[i].fileName)
    ELSE TRUE

\* run(): `preprocessors.filter(p => p.shouldRun(currentFiles, config))`,
\* as positions in the registered list.
RECURSIVE Applicable(_, _, _, _)
Applicable(stages, i, files, mode) ==
    IF i > Len(stages) THEN << >>
    ELSE (IF shouldRun(stages[i], files, mode) THEN << i >> ELSE << >>)
            \o Applicable(stages, i + 1, files, mode)

NoProcess ==
    [ idx |-> 0, outputFiles |-> << >>, processedCount |-> 0,
      skippedCount |-> 0, warnings |-> << >> ]

PreInit ==
    /\ NoUpload
    /\ rt = Idle
    /\ sc = Idle
    /\ cf = Idle
    /\ uf = Idle
    /\ \E input \in PreInputs, mode \in TiffModes, dryRun \in BOOLEAN,
          stages \in Registered :
          pp = [ pc |-> "run",        \* "run", "stage", "tiff", "cleanup",
                                      \*   "returned", "threw"
                 tiffMode |-> mode,   \* config.tiffMode
                 dryRun |-> dryRun,
                 preprocessors |-> stages,
                 input |-> input,     \* `files`
                 applicable |-> << >>,
                 k |-> 0,             \* position in applicablePreprocessors
                 currentFiles |-> input,
                 tempDir |-> FALSE,   \* the converter's tempDir is set
                 tempFiles |-> << >>, \* the converter's tempFiles
                 process |-> NoProcess,   \* locals of TiffConverter.process
                 tiffResult |-> NoProcess,\* what it returned (idx 1: it did)
                 processCalls |-> << >>,  \* stages whose process() was called
                 mkdirs |-> 0,        \* temp directories created
                 written |-> {},      \* temp files written
                 disk |-> [p \in { JpegFile(f).localPath : f \in PreFiles }
                              |-> << >>],
                                      \* the bytes at each temp path
                 cleaned |-> [c \in DOMAIN stages |-> "no"],
                                      \* cleanup() of each registered stage:
                                      \*   "no", "returned", "threw"
                 c |-> 0,             \* position in cleanup()'s loop
                 error |-> "none",    \* the stage whose process() threw
                 thrown |-> "none",   \* the error run() threw
                 result |-> << >> ]   \* the list run() returned

\* run() up to the loop: nothing applicable returns `files`.
PreRunStart ==
    /\ pp.pc = "run"
    /\ LET app == Applicable(pp.preprocessors, 1, pp.input, pp.tiffMode) IN
       pp' = IF app = << >>
             THEN [pp EXCEPT !.pc = "returned", !.result = pp.input]
             ELSE [pp EXCEPT !.pc = "stage", !.applicable = app, !.k = 1]
    /\ UNCHANGED << uploadVars, rt, sc, cf, uf >>

\* Mutant: the stages run in a dry run too.
DryRunIgnored(dryRun) == FALSE

\* run(): `if (dryRun) { ...; continue; }`
DryRun(dryRun) == dryRun

\* One iteration of run()'s loop up to the first await inside process():
\* a dry run only reports; the second stage returns the list or throws;
\* TiffConverter.process creates the temp directory in modes convert and
\* both (mkdir may fail, which process() does not catch) and starts on
\* the files.
PreStage(outcome) ==
    /\ pp.pc = "stage"
    /\ pp.k <= Len(pp.applicable)
    /\ LET stage == pp.preprocessors[pp.applicable[pp.k]]
           called == [pp EXCEPT !.processCalls = Append(@, stage)]
           caught == [called EXCEPT !.pc = "cleanup", !.error = stage, !.c = 1]
           makesDir == pp.tiffMode \in {"convert", "both"}
       IN
       IF DryRun(pp.dryRun)
       THEN /\ outcome = "ok"
            /\ pp' = [pp EXCEPT !.k = @ + 1]
       ELSE IF stage = "Other"
       THEN pp' = IF outcome = "ok" THEN [called EXCEPT !.k = @ + 1] ELSE caught
       ELSE /\ outcome = "throws" => makesDir
            /\ pp' = IF outcome = "throws" THEN caught
                     ELSE [called EXCEPT
                             !.pc = "tiff",
                             !.tempDir = IF makesDir THEN TRUE ELSE @,
                             !.mkdirs = IF makesDir THEN @ + 1 ELSE @,
                             !.process = [NoProcess EXCEPT !.idx = 1]]
    /\ UNCHANGED << uploadVars, rt, sc, cf, uf >>

\* Mutant: mode convert keeps the original next to the JPEG.
ConvertKeepsOriginal(mode, file) ==
    IF mode \in {"convert", "both"} THEN << file, JpegFile(file) >> ELSE << file >>

\* TiffConverter.processFile, when convertToJpeg returned: the files that
\* proceed.
Converted(mode, file) ==
    CASE mode = "convert" -> << JpegFile(file) >>
      [] mode = "both" -> << file, JpegFile(file) >>
      [] OTHER -> << file >>

\* Mutant: a failed conversion drops the file.
FailureDropsFile(file) == << >>

\* TiffConverter.process, the catch branch: the original proceeds.
Preserved(file) == << file >>

\* One iteration of TiffConverter.process: a non-TIFF passes through; mode
\* preserve keeps the TIFF and counts it skipped; otherwise convertToJpeg
\* runs: it throws without a temp directory, when sharp fails ("sharp"), or
\* after the JPEG was written and tracked, when stat or the hash fails
\* ("hash"); the catch keeps the original, warns and counts it skipped.
PreTiffFile(outcome) ==
    /\ pp.pc = "tiff"
    /\ pp.process.idx <= Len(pp.currentFiles)
    /\ LET file == pp.currentFiles[pp.process.idx]
           jpegPath == JpegFile(file).localPath
           pass == [pp EXCEPT !.process.idx = @ + 1,
                              !.process.outputFiles = Append(@, file)]
           ok == [pp EXCEPT !.process.idx = @ + 1,
                            !.process.outputFiles = @ \o Converted(pp.tiffMode, file),
                            !.process.processedCount = @ + 1,
                            !.tempFiles = Append(@, jpegPath),
                            !.written = @ \cup {jpegPath},
                            !.disk[jpegPath] = JpegBytes(file)]
           failed == [pp EXCEPT !.process.idx = @ + 1,
                                !.process.outputFiles = @ \o Preserved(file),
                                !.process.skippedCount = @ + 1,
                                !.process.warnings = Append(@, file.fileName)]
       IN
       IF ~isTiffFile(file.fileName)
       THEN outcome = "ok" /\ pp' = pass
       ELSE IF pp.tiffMode = "preserve"
       THEN /\ outcome = "ok"
            /\ pp' = [pass EXCEPT !.process.skippedCount = @ + 1]
       ELSE IF ~pp.tempDir
       THEN outcome = "sharp" /\ pp' = failed
       ELSE pp' = CASE outcome = "ok" -> ok
                    [] outcome = "sharp" -> failed
                    [] OTHER -> [failed EXCEPT
                                   !.tempFiles = Append(@, jpegPath),
                                   !.written = @ \cup {jpegPath},
                                   !.disk[jpegPath] = JpegBytes(file)]
    /\ UNCHANGED << uploadVars, rt, sc, cf, uf >>

\* TiffConverter.process returns and run() takes the result over.
PreTiffReturn ==
    /\ pp.pc = "tiff"
    /\ pp.process.idx > Len(pp.currentFiles)
    /\ pp' = [pp EXCEPT !.pc = "stage",
                        !.k = @ + 1,
                        !.currentFiles = pp.process.outputFiles,
                        !.tiffResult = [pp.process EXCEPT !.idx = 1],
                        !.process = NoProcess]
    /\ UNCHANGED << uploadVars, rt, sc, cf, uf >>

\* run() returns currentFiles after the last applicable stage.
PreRunReturn ==
    /\ pp.pc = "stage"
    /\ pp.k > Len(pp.applicable)
    /\ pp' = [pp EXCEPT !.pc = "returned", !.result = pp.currentFiles]
    /\ UNCHANGED << uploadVars, rt, sc, cf, uf >>

\* Mutant: cleanup() lets a stage's failure out.
CleanupStopsOnFailure(threw) == ~threw

\* cleanup(): each preprocessor.cleanup() is in a try/catch that only logs.
CleanupContinues(threw) == TRUE

\* One iteration of cleanup()'s loop over every registered preprocessor.
\* TiffConverter.cleanup unlinks its temp files, removes the directory and
\* never throws; the second stage's cleanup may throw.
PreCleanup(threw) ==
    /\ pp.pc = "cleanup"
    /\ pp.c <= Len(pp.preprocessors)
    /\ LET stage == pp.preprocessors[pp.c]
           done == [pp EXCEPT !.cleaned[pp.c] = IF threw THEN "threw" ELSE "returned",
                              !.c = @ + 1]
       IN
       /\ stage = "TiffConverter" => ~threw
       /\ pp' = IF ~CleanupContinues(threw)
                THEN [done EXCEPT !.pc = "threw", !.thrown = "cleanup"]
                ELSE IF stage = "TiffConverter"
                THEN [done EXCEPT !.tempFiles = << >>, !.tempDir = FALSE,
                                  !.written = {},
                                  !.disk = [p \in DOMAIN @ |-> << >>]]
                ELSE done
    /\ UNCHANGED << uploadVars, rt, sc, cf, uf >>

\* run()'s catch, after cleanup(): `throw error`.
PreRunThrow ==
    /\ pp.pc = "cleanup"
    /\ pp.c > Len(pp.preprocessors)
    /\ pp' = [pp EXCEPT !.pc = "threw", !.thrown = pp.error]
    /\ UNCHANGED << uploadVars, rt, sc, cf, uf >>

PreNext ==
    \/ PreRunStart
    \/ \E outcome \in {"ok", "throws"} : PreStage(outcome)
    \/ \E outcome \in {"ok", "sharp", "hash"} : PreTiffFile(outcome)
    \/ PreTiffReturn
    \/ PreRunReturn
    \/ \E threw \in BOOLEAN : PreCleanup(threw)
    \/ PreRunThrow

PreSpec == PreInit /\ [][PreNext]_vars

-----------------------------------------------------------------------------
(* loadConfig, run on its own. Every value is written as a string; "" is    *)
(* an option, variable or key that is not given (undefined).                *)

Settings ==
    { "workerUrl", "uploader", "rootPath", "parentPi", "parallel",
      "parallelParts", "tiffMode", "tiffQuality" }

NumericSettings == { "parallel", "parallelParts", "tiffQuality" }

\* The defaults loadConfig falls back on (none for the uploader).
DefaultValue(s) ==
    CASE s = "workerUrl" -> "https://ingest.arke.institute"
      [] s = "uploader" -> ""
      [] s = "rootPath" -> "/"
      [] s = "parentPi" -> "00000000000000000000000000"
      [] s = "parallel" -> "5"
      [] s = "parallelParts" -> "3"
      [] s = "tiffMode" -> "convert"
      [] s = "tiffQuality" -> "95"

\* The default Commander gives an option that is not on the command line.
CommanderDefault(s) ==
    CASE s = "rootPath" -> "/"
      [] s = "parentPi" -> "00000000000000000000000000"
      [] s = "parallel" -> "5"
      [] s = "parallelParts" -> "3"
      [] OTHER -> ""

\* A value of setting s that only the given source holds.
OwnValue(source, s) ==
    CASE s = "tiffMode" ->
            (CASE source = "cli" -> "both" [] source = "env" -> "preserve"
               [] OTHER -> "none")
      [] s \in NumericSettings ->
            (CASE source = "cli" -> "08" [] source = "env" -> "6"
               [] OTHER -> "7")
      [] OTHER -> source

\* What a source may hold for setting s: nothing, the default's value
\* written out, or a value of its own.
SourceValues(source, s) ==
    { "", OwnValue(source, s) }
        \cup (IF DefaultValue(s) = "" THEN {} ELSE { DefaultValue(s) })

NothingGiven == [s \in Settings |-> ""]

\* parseInt(text, 10) on the model's numerals.
parseInt(text) ==
    CASE text = "08" -> "8"
      [] text = "" -> "NaN"
      [] OTHER -> text

\* JavaScript truthiness of a string or number.
Truthy(v) == v \notin { "", "NaN", "0" }

\* a || b
Or(a, b) == IF Truthy(a) THEN a ELSE b

CfInit ==
    /\ NoUpload
    /\ rt = Idle
    /\ sc = Idle
    /\ pp = Idle
    /\ uf = Idle
    /\ \E s \in Settings :
       \E c \in SourceValues("cli", s), e \in SourceValues("env", s),
          f \in SourceValues("file", s),
          sibling \in { "", OwnValue("env", "tiffQuality") } :
          /\ sibling # "" => s = "tiffMode"
          /\ cf = [ pc |-> "argv",    \* "argv", "file", "env", "merge", "done"
                    setting |-> s,
                    argv |-> [NothingGiven EXCEPT ![s] = c],
                    environ |-> [NothingGiven EXCEPT ![s] = e,
                                                    !["tiffQuality"] =
                                                        IF s = "tiffMode" THEN sibling
                                                        ELSE IF s = "tiffQuality" THEN e
                                                        ELSE ""],
                    json |-> [NothingGiven EXCEPT ![s] = f],
                    cliOptions |-> NothingGiven,
                    fileConfig |-> NothingGiven,
                    envConfig |-> NothingGiven,
                    config |-> NothingGiven ]

\* Commander parses the command line: an option that is not given takes
\* its declared default.
CfParse ==
    /\ cf.pc = "argv"
    /\ cf' = [cf EXCEPT
                !.pc = "file",
                !.cliOptions = [s \in Settings |->
                                  IF cf.argv[s] # "" THEN cf.argv[s]
                                  ELSE CommanderDefault(s)]]
    /\ UNCHANGED << uploadVars, rt, sc, pp, uf >>

\* loadConfigFile: the parsed JSON of the first config file found.
CfLoadFile ==
    /\ cf.pc = "file"
    /\ cf' = [cf EXCEPT !.pc = "env", !.fileConfig = cf.json]
    /\ UNCHANGED << uploadVars, rt, sc, pp, uf >>

\* loadEnvConfig: each variable that is set is copied (the numeric ones
\* through parseInt); the first preprocessor variable that is set creates
\* the preprocessor object as a copy of DEFAULT_PREPROCESSOR_CONFIG.
loadEnvConfig(environ) ==
    LET preprocessor == environ["tiffMode"] # "" \/ environ["tiffQuality"] # "" IN
    [s \in Settings |->
        CASE s \in { "tiffMode", "tiffQuality" } ->
                IF ~preprocessor THEN ""
                ELSE IF environ[s] = "" THEN DefaultValue(s)
                ELSE IF s = "tiffQuality" THEN parseInt(environ[s])
                ELSE environ[s]
          [] s \in NumericSettings ->
                IF environ[s] = "" THEN "" ELSE parseInt(environ[s])
          [] OTHER -> environ[s]]

CfLoadEnv ==
    /\ cf.pc = "env"
    /\ cf' = [cf EXCEPT !.pc = "merge", !.envConfig = loadEnvConfig(cf.environ)]
    /\ UNCHANGED << uploadVars, rt, sc, pp, uf >>

\* The test loadConfig puts on a command-line value: it is set and is not
\* the option's default value.
CliExplicit(cli, s) == Truthy(cli) /\ cli # DefaultValue(s)

\* loadConfig's expression for each setting, and
\* mergePreprocessorWithDefaults for the TIFF mode and quality (the values
\* here all pass validateTiffMode and validateTiffQuality).
Resolve(s, cli, env, file) ==
    CASE s \in { "workerUrl", "uploader" } ->
            Or(cli, Or(env, Or(file, DefaultValue(s))))
      [] s \in { "rootPath", "parentPi" } ->
            IF CliExplicit(cli, s) THEN cli
            ELSE Or(env, Or(file, Or(cli, DefaultValue(s))))
      [] s \in { "parallel", "parallelParts" } ->
            IF CliExplicit(cli, s) THEN parseInt(cli)
            ELSE Or(env, Or(file, parseInt(Or(cli, DefaultValue(s)))))
      [] s = "tiffMode" ->
            IF CliExplicit(cli, s) THEN cli
            ELSE IF Truthy(env) THEN env
            ELSE IF Truthy(file) THEN file
            ELSE DefaultValue(s)
      [] s = "tiffQuality" ->
            IF CliExplicit(cli, s) THEN parseInt(cli)
            ELSE IF env # "" THEN env
            ELSE IF file # "" THEN file
            ELSE DefaultValue(s)

CfResolve ==
    /\ cf.pc = "merge"
    /\ cf' = [cf EXCEPT
                !.pc = "done",
                !.config = [s \in Settings |->
                              Resolve(s, cf.cliOptions[s], cf.envConfig[s],
                                      cf.fileConfig[s])]]
    /\ UNCHANGED << uploadVars, rt, sc, pp, uf >>

CfNext ==
    \/ CfParse
    \/ CfLoadFile
    \/ CfLoadEnv
    \/ CfResolve

CfSpec == CfInit /\ [][CfNext]_vars

-----------------------------------------------------------------------------
(* uploadFile run on its own for one file, and uploadMultipart called on    *)
(* its own with already completed parts: the file's size, the descriptor's *)
(* part size and the bytes every part upload reads and PUTs.               *)

\* Largest file size and part size (in bytes) and highest part number tried.
MaxSize == 5
MaxPartSize == 2
MaxTargets == 3

\* The file size at which the coordinator of the size scenario starts to
\* answer multipart.
Threshold == MaxSize - 1

\* The members of a set of part numbers in ascending order.
RECURSIVE AscendingList(_)
AscendingList(S) ==
    IF S = {} THEN << >>
    ELSE LET least == CHOOSE x \in S : \A y \in S : x <= y
         IN << least >> \o AscendingList(S \ {least})

\* Lists of part numbers a descriptor or a caller may carry: every ascending
\* list of distinct part numbers (empty, with gaps, short or long for the
\* file) and the full list in descending order.
PartLists ==
    { AscendingList(S) : S \in SUBSET (1..MaxTargets) }
    \cup { [i \in 1..MaxTargets |-> MaxTargets + 1 - i] }

\* StartFileUploadResponse with its part size and part targets.
UfDescriptors ==
    { [upload_type |-> "simple", present |-> b, part_size |-> 0,
       presigned_urls |-> << >>] : b \in BOOLEAN }
    \cup { [upload_type |-> "multipart", present |-> TRUE, part_size |-> ps,
            presigned_urls |-> l] : ps \in 1..MaxPartSize, l \in PartLists }
    \cup { [upload_type |-> "multipart", present |-> FALSE, part_size |-> 0,
            presigned_urls |-> << >>] }

\* Mutant: the client picks the path by comparing the file size itself.
PathByClientSize(uploadType, size) ==
    IF size < Threshold THEN "simple" ELSE "multipart"

\* `if (uploadInfo.upload_type === 'simple') {...} else {...}`
TransferPath(uploadType, size) ==
    IF uploadType = "simple" THEN "simple" ELSE "multipart"

\* Mutant: every part target is uploaded again.
AllTargets(presignedUrls, completedParts) == presignedUrls

\* `options.presignedUrls.filter((u) => !completedPartNumbers.has(u.part_number))`
PartsToUpload(presignedUrls, completedParts) ==
    SelectSeq(presignedUrls, LAMBDA p : p \notin Range(completedParts))

\* Mutant: part numbers are taken to start at 0.
PartOffsetFromZero(partNumber, partSize) == partNumber * partSize

\* `const offset = (urlInfo.part_number - 1) * partSize`
PartOffset(partNumber, partSize) == (partNumber - 1) * partSize

\* `fileHandle.read(buffer, 0, partSize, offset)` on a regular file of `size`
\* bytes: bytesRead, 0 at or past the end of the file.
ReadLength(size, offset, length) ==
    IF offset >= size THEN 0 ELSE Min(length, size - offset)

\* No PUT issued yet for any part number.
NoPuts == [p \in 1..MaxTargets |-> [n |-> 0, offset |-> 0, length |-> 0]]

\* The call with its options, before its first await.
UfCall(caller, pc, size, uploadType, partSize, targets, completed, parallelParts) ==
    [ caller        |-> caller,     \* "uploadFile", or "resume": uploadMultipart
                                    \*   called with completedParts
      pc            |-> pc,         \* "start", "simple", "multipart", "parts",
                                    \*   "complete", "completed", "returned",
                                    \*   "failed"
      size          |-> size,       \* fileInfo.size
      uploadType    |-> uploadType, \* uploadInfo.upload_type
      present       |-> TRUE,       \* the descriptor has the fields of its type
      partSize      |-> partSize,   \* options.partSize
      targets       |-> targets,    \* part numbers of options.presignedUrls
      completed     |-> completed,  \* part numbers of options.completedParts
      parallelParts |-> parallelParts,
      simpleCalls   |-> 0,          \* calls of uploadSimple
      multipartCalls |-> IF pc = "multipart" THEN 1 ELSE 0,
      handle        |-> "none",
      queue         |-> << >>,
      pw            |-> << >>,
      results       |-> << >>,
      puts          |-> NoPuts,     \* per part number: PUTs issued, bytes sent
      manifest      |-> << >> ]     \* allParts, as returned

UfInit ==
    /\ NoUpload
    /\ rt = Idle
    /\ sc = Idle
    /\ pp = Idle
    /\ cf = Idle
    /\ \E size \in 1..MaxSize, parallelParts \in 1..MaxParts :
        \/ uf = UfCall("uploadFile", "start", size, "none", 0, << >>, << >>,
                       parallelParts)
        \/ \E partSize \in 1..MaxPartSize, targets \in PartLists,
              completed \in PartLists \ { << >> } :
              uf = UfCall("resume", "multipart", size, "multipart", partSize,
                          targets, completed, parallelParts)

UfAt(pc) == uf # Idle /\ uf.pc = pc

\* client.startFileUpload returns descriptor d: the branch of uploadFile it
\* selects is entered and calls uploadSimple or uploadMultipart; a
\* descriptor that lacks the fields of its type throws.
UfStartAck(d) ==
    /\ UfAt("start")
    /\ LET path == TransferPath(d.upload_type, uf.size)
           got == [uf EXCEPT !.uploadType = d.upload_type,
                             !.present = d.present,
                             !.partSize = d.part_size,
                             !.targets = d.presigned_urls]
       IN uf' = IF ~d.present \/ (path = "multipart" /\ d.part_size = 0)
                THEN [got EXCEPT !.pc = "failed"]
                ELSE IF path = "simple"
                THEN [got EXCEPT !.pc = "simple", !.simpleCalls = @ + 1]
                ELSE [got EXCEPT !.pc = "multipart", !.multipartCalls = @ + 1]
    /\ UNCHANGED << uploadVars, rt, sc, pp, cf >>

\* uploadSimple returns or throws.
UfSimpleRespond(ok) ==
    /\ UfAt("simple")
    /\ uf' = [uf EXCEPT !.pc = IF ok THEN "complete" ELSE "failed"]
    /\ UNCHANGED << uploadVars, rt, sc, pp, cf >>

\* uploadMultipart's fs.open returns or throws; with the handle open the
\* parts still to upload are queued and the part workers started.
UfOpenRespond(ok) ==
    /\ UfAt("multipart")
    /\ uf' = IF ~ok THEN [uf EXCEPT !.pc = "failed"]
             ELSE LET q == PartsToUpload(uf.targets, uf.completed)
                  IN StartPartWorkers(1, PartConcurrency(uf.parallelParts, Len(q)),
                        [uf EXCEPT !.pc = "parts", !.handle = "open",
                                   !.queue = q])
    /\ UNCHANGED << uploadVars, rt, sc, pp, cf >>

\* uploadPart of part worker i settles: the positioned read at the part's
\* offset, `if (bytesRead === 0) throw`, then the PUT of the bytes read,
\* which returns (ok) or throws.
UfPartRespond(i, ok) ==
    /\ UfAt("parts")
    /\ i \in DOMAIN uf.pw
    /\ uf.pw[i].pc = "uploading"
    /\ LET p == uf.pw[i].part
           offset == PartOffset(p, uf.partSize)
           bytesRead == ReadLength(uf.size, offset, uf.partSize)
           put == [uf EXCEPT !.puts[p] = [n |-> @.n + 1, offset |-> offset,
                                          length |-> bytesRead]]
       IN /\ bytesRead = 0 => ~ok
          /\ uf' = IF bytesRead = 0
                   THEN [uf EXCEPT !.pw[i].pc = "rejected"]
                   ELSE IF ok
                   THEN PartWorkerLoop([put EXCEPT !.results = Append(@, p)], i)
                   ELSE [put EXCEPT !.pw[i].pc = "rejected"]
    /\ UNCHANGED << uploadVars, rt, sc, pp, cf >>

\* `await Promise.all(inProgress)` settled: the finally block closes the
\* handle; the merged, sorted manifest is returned, and uploadFile passes it
\* to client.completeFileUpload, or the rejection is rethrown.  The call is
\* followed until it returns or throws.
UfSettle ==
    /\ UfAt("parts")
    /\ PromiseAll(uf.pw) # "pending"
    /\ LET over == [uf EXCEPT !.handle = "closed", !.queue = << >>,
                              !.pw = << >>, !.results = << >>]
       IN uf' = IF PromiseAll(uf.pw) = "rejected"
                THEN [over EXCEPT !.pc = "failed"]
                ELSE [over EXCEPT
                        !.manifest = SortParts(uf.completed \o uf.results),
                        !.pc = IF uf.caller = "uploadFile" THEN "complete"
                               ELSE "returned"]
    /\ UNCHANGED << uploadVars, rt, sc, pp, cf >>

\* client.completeFileUpload returns or throws.
UfCompleteRespond(ok) ==
    /\ UfAt("complete")
    /\ uf' = [uf EXCEPT !.pc = IF ok THEN "completed" ELSE "failed"]
    /\ UNCHANGED << uploadVars, rt, sc, pp, cf >>

UfNext ==
    \/ \E d \in UfDescriptors : UfStartAck(d)
    \/ \E ok \in BOOLEAN : UfSimpleRespond(ok)
    \/ \E ok \in BOOLEAN : UfOpenRespond(ok)
    \/ \E i \in 1..MaxParts, ok \in BOOLEAN : UfPartRespond(i, ok)
    \/ UfSettle
    \/ \E ok \in BOOLEAN : UfCompleteRespond(ok)

TransferSpec == UfInit /\ [][UfNext]_vars

-----------------------------------------------------------------------------
(* Properties.                                                             *)

Terminal == {"completed", "failed"}

SomeTaskFailed == \E t \in DOMAIN tasks : tasks[t].status = "failed"

\* C1: when uploadMultipart returns for a descriptor whose part targets are
\* numbered 1..k, the manifest it returns is exactly <<1, ..., k>>: every
\* target once, strictly ascending, whatever order the parts completed in.
C1_ManifestExactAscending ==
    \A w \in DOMAIN workers :
        (workers[w].pc = "complete"
            /\ tasks[workers[w].task].uploadType = "multipart")
        => workers[w].manifest = [i \in 1..Len(workers[w].targets) |-> i]

\* C1 witness: a multipart transfer returned a manifest of two or more parts
\* that had completed out of part order.
C1_Witness ==
    \E w \in DOMAIN workers :
        /\ workers[w].pc = "complete"
        /\ workers[w].outOfOrder
        /\ Len(workers[w].manifest) >= 2
        /\ workers[w].manifest = workers[w].targets

Uploading == { t \in DOMAIN tasks : tasks[t].status = "uploading" }

\* C2: with file-level parallelism N, at most N tasks have status
\* 'uploading' in any reachable state.
C2_FileConcurrencyBound == Cardinality(Uploading) <= config.parallelUploads

\* C2 witness: more tasks than the parallelism allows; N of them are being
\* uploaded while another waits in the queue.
C2_Witness ==
    /\ Len(tasks) > config.parallelUploads
    /\ Cardinality(Uploading) = config.parallelUploads
    /\ Len(queue) > 0

\* C3: with part-level parallelism M, at most M part uploads of one file are
\* in progress at any instant.
C3_PartConcurrencyBound ==
    \A t \in DOMAIN mp : PartsInProgress(t) <= config.parallelParts

\* C3 witness: a file with more parts than the parallelism allows has M part
\* uploads in progress and a part still queued.
C3_Witness ==
    \E t \in DOMAIN mp :
        /\ PartsInProgress(t) = config.parallelParts
        /\ Len(mp[t].queue) > 0
        /\ ~mp[t].returned

\* C4: uploadFiles decides the batch result only when the queue is empty,
\* every worker has finished and every task, those queued behind a failed
\* file included, was attempted and reached its own outcome.
C4_FailureIsolation ==
    filesResult # "none" =>
        /\ queue = << >>
        /\ \A w \in DOMAIN workers : workers[w].pc = "finished"
        /\ \A t \in DOMAIN tasks :
              tasks[t].status \in Terminal /\ tasks[t].startCalls = 1

\* C4 witness: with one worker, the first file failed and the file queued
\* behind it was still uploaded before the batch was reported failed.
C4_Witness ==
    /\ filesResult = "threw"
    /\ config.parallelUploads = 1
    /\ Len(tasks) = 2
    /\ tasks[1].status = "failed"
    /\ tasks[2].status = "completed"

\* C5 (as amended): uploadFiles throws exactly when a task ended 'failed',
\* and then the process exits non-zero; the exit status is also non-zero,
\* with no failed task, when scan, init or finalize fails.  No step takes a
\* task out of 'completed'.
C5_FailureReported ==
    /\ [](filesResult # "none" => (filesResult = "threw" <=> SomeTaskFailed))
    /\ [](exited /\ SomeTaskFailed => exitCode # 0)
    /\ [](exited /\ exitCode # 0 /\ ~SomeTaskFailed =>
            phase = "failed" /\ filesResult # "threw")
    /\ [][\A t \in DOMAIN tasks :
            tasks[t].status = "completed" => tasks'[t].status = "completed"]_vars

\* C5 witness: the run was reported failed with one task 'failed' and
\* another still 'completed'.
C5_Witness ==
    /\ exited /\ exitCode # 0
    /\ filesResult = "threw"
    /\ \E t \in DOMAIN tasks : tasks[t].status = "completed"
    /\ tasks[Len(tasks)].status = "failed"

\* C5 as stated: uploadFiles throws, and the process exit status is
\* non-zero, if and only if at least one task ended 'failed'.
C5_ExitIffTaskFailed ==
    /\ filesResult # "none" => (filesResult = "threw" <=> SomeTaskFailed)
    /\ exited => (exitCode # 0 <=> SomeTaskFailed)

\* The status changes a step may make to a task.
StatusStep(from, to) ==
    \/ to = from
    \/ from = "pending" /\ to = "uploading"
    \/ from = "uploading" /\ to \in Terminal

\* C6: a task is created 'pending'; its status only moves pending ->
\* uploading -> completed or failed, and a terminal status never changes.
C6_StatusTransitions ==
    [][\A t \in DOMAIN tasks' :
          IF t \in DOMAIN tasks
          THEN StatusStep(tasks[t].status, tasks'[t].status)
          ELSE tasks'[t].status = "pending"]_vars

\* C6 witness: the run is over with every task terminal, one of them
\* 'completed' and one 'failed'.
C6_Witness ==
    /\ exited
    /\ \A t \in DOMAIN tasks : tasks[t].status \in Terminal
    /\ \E t \in DOMAIN tasks : tasks[t].status = "completed"
    /\ \E t \in DOMAIN tasks : tasks[t].status = "failed"

\* Task t's transfer has begun: its uploadSimple or uploadMultipart call is
\* running or over.
TransferBegun(t) ==
    \/ tasks[t].transferred
    \/ mp[t].handle # "none"
    \/ \E w \in DOMAIN workers :
          workers[w].task = t /\ workers[w].pc \in {"simple", "open", "parts"}

\* C7: a file's transfer begins only after its start-file request returned
\* a descriptor; complete-file is requested only after the transfer
\* returned; the task is 'completed' only after complete-file returned.
C7_StartTransferComplete ==
    \A t \in DOMAIN tasks :
        /\ TransferBegun(t) => tasks[t].startCalls = 1 /\ tasks[t].startAcked
        /\ tasks[t].completeCalls > 0 => tasks[t].transferred
        /\ tasks[t].completeAcked => tasks[t].completeCalls = 1
        /\ tasks[t].status = "completed" => tasks[t].completeAcked

\* C7 witness: one task is 'completed' after all three steps, and for
\* another the transfer returned but complete-file threw.
C7_Witness ==
    /\ \E t \in DOMAIN tasks :
          /\ tasks[t].status = "completed"
          /\ tasks[t].startAcked /\ tasks[t].transferred /\ tasks[t].completeAcked
    /\ \E t \in DOMAIN tasks :
          /\ tasks[t].status = "failed"
          /\ tasks[t].completeCalls = 1 /\ ~tasks[t].completeAcked

C9_NoPartialCompletion ==
    /\ \A w \in DOMAIN workers :
          (workers[w].pc = "complete"
              /\ tasks[workers[w].task].uploadType = "multipart")
          => Range(workers[w].manifest) = Range(workers[w].targets)
    /\ \A t \in DOMAIN tasks :
          tasks[t].partFailed =>
              /\ tasks[t].completeCalls = 0
              /\ tasks[t].status \in {"uploading", "failed"}
              /\ mp[t].returned => tasks[t].status = "failed"

\* C9 witness: a part of a file failed while another part of it was still
\* being uploaded, and the task ended 'failed' with no complete-file request.
C9_Witness ==
    \E t \in DOMAIN tasks :
        /\ tasks[t].partFailed
        /\ tasks[t].status = "failed"
        /\ tasks[t].completeCalls = 0
        /\ mp[t].returned
        /\ PartsInProgress(t) > 0

\* C10 as stated: a file that failed because a PUT failed with a transport
\* error failed only after maxRetries + 1 attempts of that PUT.
C10_TransportFailureRetried ==
    \A t \in DOMAIN tasks :
        (tasks[t].status = "failed" /\ tasks[t].putAttempts # 0)
        => tasks[t].putAttempts = DefaultMaxRetries + 1

\* C11..C20.

\* What the handle of task t's uploadMultipart may be, given how often it
\* was closed.
HandleConsistent(t) ==
    /\ mp[t].handle = "none" => mp[t].closes = 0 /\ ~mp[t].returned
    /\ mp[t].handle = "open" => mp[t].closes = 0 /\ ~mp[t].returned
    /\ mp[t].handle = "closed" => mp[t].closes = 1 /\ mp[t].returned

\* C15: a handle uploadMultipart opened is closed exactly once: it is open
\* only while the call runs, it is closed when the call has returned or
\* thrown, a closed handle is never reopened or closed again, an open
\* handle stays open until it is closed, and from some point on no handle
\* is open: every handle opened is eventually closed.
C15_HandleClosedOnce ==
    /\ [](\A t \in DOMAIN mp : HandleConsistent(t))
    /\ [][\A t \in DOMAIN mp :
            mp[t].handle = "closed" => mp'[t].handle = "closed"]_vars
    /\ [][\A t \in DOMAIN mp :
            mp[t].handle = "open" => mp'[t].handle \in {"open", "closed"}]_vars
    /\ <>[](\A t \in DOMAIN mp : mp[t].handle # "open")

\* C15 witness: two multipart transfers are over with their handles closed,
\* one that returned a manifest and one that failed on a part.
C15_Witness ==
    \E t, u \in DOMAIN mp :
        /\ mp[t].handle = "closed" /\ mp[t].closes = 1
        /\ tasks[t].partFailed
        /\ mp[u].handle = "closed" /\ mp[u].closes = 1
        /\ tasks[u].transferred

\* The inputs the command refuses: handleUpload's checks, spelled out.
InputsRefused ==
    \/ config.invalid # "none"
    \/ config.parallelUploads < 1
    \/ config.parallelParts < 1

\* No coordinator request was made and no transfer begun.
NothingSent ==
    /\ initCalls = 0 /\ finalizeCalls = 0
    /\ tasks = << >> /\ workers = << >> /\ issued = 0

\* C18: a run whose inputs are invalid, or that ended with a
\* ValidationError or a ScanError, made no coordinator request and no PUT,
\* and ends with a non-zero status.
C18_AbortBeforeAnyRequest ==
    /\ InputsRefused => NothingSent /\ phase \in {"validate", "failed"}
    /\ runError \in {"ValidationError", "ScanError"} =>
          NothingSent /\ phase = "failed" /\ exited /\ exitCode # 0

\* C18 witness: the scan threw a ValidationError (the batch size ceiling)
\* in a run that would otherwise have uploaded.
C18_Witness ==
    /\ runError = "ValidationError"
    /\ ~InputsRefused
    /\ ~config.dryRun
    /\ exited

\* C11: retryWithBackoff on an operation whose every call fails with a
\* retryable error calls it exactly maxRetries + 1 times (never more) and
\* then throws the error of the last call.
C11_RetryBound ==
    /\ rt.calls <= rt.maxRetries + 1
    /\ (rt.pc = "threw" /\ isRetryableError(rt.last)) =>
          /\ rt.calls = rt.maxRetries + 1
          /\ rt.thrown = [error |-> rt.last, call |-> rt.calls]
    /\ (rt.pc \in {"call", "sleep"} /\ rt.calls > 0) => isRetryableError(rt.last)

\* C11 witness: with the largest maxRetries, every call failed with a
\* retryable error, the last with another error than the first, and the
\* call threw.
C11_Witness ==
    /\ rt.pc = "threw"
    /\ rt.maxRetries = MaxRetriesBound
    /\ rt.calls = rt.maxRetries + 1
    /\ isRetryableError(rt.last)
    /\ rt.first # rt.last

\* C12: when the operation's first call fails with an error that is not
\* retryable, retryWithBackoff has called it once, slept for no delay and
\* thrown that error, whatever maxRetries is.
C12_NonRetryableOnce ==
    (rt.first # NoError /\ ~isRetryableError(rt.first)) =>
        /\ rt.pc = "threw"
        /\ rt.calls = 1
        /\ rt.delays = << >>
        /\ rt.thrown = [error |-> rt.first, call |-> 1]

\* C12 witness: a coordinator 4xx error was thrown at once although
\* retries were allowed.
C12_Witness ==
    /\ rt.pc = "threw"
    /\ rt.maxRetries = MaxRetriesBound
    /\ rt.calls = 1
    /\ rt.first = WorkerAPIError(400)

\* C13 (as amended): the k-th delay, waited after the k-th failed call and
\* before call k + 1, is min(initialDelay * 2^(k-1), maxDelay), for k from 1
\* to maxRetries; nothing is waited before the first call or after the
\* last.
C13_DelayAfterAttempt ==
    /\ \A k \in DOMAIN rt.delays :
          rt.delays[k] = Min(rt.initialDelay * 2^(k - 1), rt.maxDelay)
    /\ Len(rt.delays) <= rt.maxRetries
    /\ Len(rt.delays) = (IF rt.pc = "sleep" THEN rt.attempt + 1 ELSE rt.attempt)
    /\ rt.pc \in {"call", "sleep"} => Len(rt.delays) = rt.calls
    /\ rt.pc = "threw" => Len(rt.delays) = rt.calls - 1

\* C13 witness: two delays were waited, the second one capped by maxDelay.
C13_Witness ==
    /\ Len(rt.delays) = 2
    /\ rt.delays[1] = rt.initialDelay
    /\ rt.delays[2] = rt.maxDelay
    /\ rt.maxDelay < rt.initialDelay * 2

\* C13 as stated: the delay waited before call k (1-indexed) is
\* min(initialDelay * 2^(k-1), maxDelay); the delay before call k is the
\* (k-1)-th delay waited.
C13_DelayBeforeAttempt ==
    \A k \in 2..(Len(rt.delays) + 1) :
        rt.delays[k - 1] = Min(rt.initialDelay * 2^(k - 1), rt.maxDelay)

\* A transport-level failure, a coordinator error.
IsTransportFailure(e) == e.name = "NetworkError" \/ e.code \in TransportCodes
IsCoordinatorError(e) == e.name = "WorkerAPIError"

\* C14: isRetryableError is true for every transport-level failure and
\* every coordinator error with status >= 500, false for every coordinator
\* error with a lower status (4xx) and false for every other error; the
\* retry loop sleeps or rethrows accordingly.
C14_Classification ==
    /\ \A e \in RetryErrors :
          /\ IsTransportFailure(e) => isRetryableError(e)
          /\ (IsCoordinatorError(e) /\ e.statusCode >= 500) => isRetryableError(e)
          /\ (IsCoordinatorError(e) /\ e.statusCode < 500) => ~isRetryableError(e)
          /\ (~IsTransportFailure(e) /\ ~IsCoordinatorError(e)) => ~isRetryableError(e)
    /\ rt.pc = "sleep" => IsTransportFailure(rt.last)
                            \/ (IsCoordinatorError(rt.last) /\ rt.last.statusCode >= 500)
    /\ (rt.pc = "threw" /\ rt.calls <= rt.maxRetries) =>
          /\ ~IsTransportFailure(rt.last)
          /\ ~(IsCoordinatorError(rt.last) /\ rt.last.statusCode >= 500)

\* C14 witness: a coordinator 5xx error was retried and the 4xx error of the
\* next call was rethrown with retries left.
C14_Witness ==
    /\ rt.pc = "threw"
    /\ rt.calls = 2 /\ rt.maxRetries >= 2
    /\ rt.first = WorkerAPIError(500)
    /\ rt.last = WorkerAPIError(404)

\* The global default merged field-wise with each override of a directory
\* chain, in root-to-leaf order.
RECURSIVE InheritedPolicy(_, _)
InheritedPolicy(global, frames) ==
    IF frames = << >> THEN global
    ELSE mergeProcessingConfig(
            InheritedPolicy(global, SubSeq(frames, 1, Len(frames) - 1)),
            frames[Len(frames)].override)

\* C16 as stated: the policy attached to a file directly contained in the
\* directory being walked is the global default merged with the override of
\* every directory on the chain from the scan root, in root-to-leaf order.
C16_PolicyInherited ==
    (sc.pc = "walk" /\ sc.frames # << >>) =>
        sc.frames[Len(sc.frames)].config = InheritedPolicy(sc.global, sc.frames)

PolicyDefined(policy) ==
    /\ policy.ocr # "undefined"
    /\ policy.describe # "undefined"
    /\ policy.pinax # "undefined"

\* C17: with a global default whose fields are all set, every policy field
\* of every file collected and returned by scanDirectory is defined,
\* whatever the override files hold.
C17_PolicyFieldsDefined ==
    /\ \A i \in DOMAIN sc.files : PolicyDefined(sc.files[i].processingConfig)
    /\ \A i \in DOMAIN sc.result.files :
          PolicyDefined(sc.result.files[i].processingConfig)
    /\ \A d \in DOMAIN sc.frames : PolicyDefined(sc.frames[d].config)

\* C17 witness: the scan returned a file found under an override with a
\* null field and a missing field (the default's values were kept for
\* both) and a file with the plain default.
C17_Witness ==
    /\ sc.pc = "done"
    /\ sc.global = Policy("false", "false", "false")
    /\ \E i \in DOMAIN sc.result.files :
          sc.result.files[i].processingConfig = Policy("false", "true", "false")
    /\ \E i \in DOMAIN sc.result.files :
          sc.result.files[i].processingConfig = sc.global

\* A file record passes the filters of the claim.
PassesFilters(f, allowed) ==
    /\ \E a \in allowed : toLowerCase(a) = toLowerCase(f.ext)
    /\ 0 < f.size /\ f.size <= MaxFileSize
    /\ validateLogicalPath(LogicalPath(f))

\* C19: every file collected and returned passes the extension filter
\* (compared case-insensitively), the size filter and the logical path
\* check; processFile on an entry that fails one of them adds no file and
\* leaves the scan running.
C19_OnlyEligibleFiles ==
    /\ \A i \in DOMAIN sc.files : PassesFilters(sc.files[i], sc.allowed)
    /\ \A i \in DOMAIN sc.result.files :
          PassesFilters(sc.result.files[i], sc.allowed)
    /\ (sc.pc = "walk" /\ sc.frames # << >>) =>
          \A e \in Entries :
              ~PassesFilters(e, sc.allowed) =>
                  /\ processFile(sc, e).files = sc.files
                  /\ processFile(sc, e).totalSize = sc.totalSize
                  /\ processFile(sc, e).pc = "walk"
                  /\ processFile(sc, e).error = "none"

\* C19 witness: the scan returned a file with an upper-case extension
\* after skipping another file.
C19_Witness ==
    /\ sc.pc = "done"
    /\ sc.skipped
    /\ \E i \in DOMAIN sc.result.files : sc.result.files[i].ext = ".PDF"

RECURSIVE SumSizes(_)
SumSizes(files) ==
    IF files = << >> THEN 0 ELSE files[1].size + SumSizes(Tail(files))

Occurrences(files, f) == Cardinality({ i \in DOMAIN files : files[i] = f })

\* C20: the list scanDirectory returns is sorted ascending by size, is a
\* permutation of the files collected, and totalFiles and totalSize are
\* its length and the sum of its sizes.
C20_SortedWithTotals ==
    sc.pc = "done" =>
        LET r == sc.result IN
        /\ \A i \in 1..(Len(r.files) - 1) : r.files[i].size <= r.files[i + 1].size
        /\ Len(r.files) = Len(sc.files)
        /\ \A i \in DOMAIN sc.files :
              Occurrences(r.files, sc.files[i]) = Occurrences(sc.files, sc.files[i])
        /\ r.totalFiles = Len(r.files)
        /\ r.totalSize = SumSizes(r.files)

\* C20 witness: the walk found a larger file before a smaller one and the
\* scan returned them smallest first.
C20_Witness ==
    /\ sc.pc = "done"
    /\ Len(sc.files) = 2
    /\ sc.files[1].size > sc.files[2].size
    /\ sc.result.files[1] = sc.files[2]
    /\ sc.result.totalSize = MaxFileSize + 1

\* C21 as stated: in the list run() returns, after the scan and after
\* TiffConverter.process in any mode, no two files share a logical path.
C21_UniqueLogicalPaths ==
    pp.pc = "returned" =>
        \A i, j \in DOMAIN pp.result :
            i # j => pp.result[i].logicalPath # pp.result[j].logicalPath

IsTiff(file) == isTiffFile(file.fileName)

IsOriginalNonTiff(file) == ~IsTiff(file) /\ file.localPath[1] # "tmp"

\* The JPEG derived from a TIFF: <base>.jpg in the TIFF's logical directory.
DerivedOf(file, jpeg) ==
    /\ jpeg.fileName = << file.fileName[1], ".jpg" >>
    /\ jpeg.logicalPath = << file.logicalPath[1], file.fileName[1], ".jpg" >>
    /\ jpeg.localPath[1] = "tmp"

\* The output the modes call for, given the names of the TIFFs whose
\* conversion failed: a failed TIFF and a TIFF in mode preserve proceed
\* unchanged, a TIFF in mode convert is replaced by its JPEG, a TIFF in
\* mode both is followed by its JPEG, any other file proceeds unchanged.
RECURSIVE MatchesModes(_, _, _, _)
MatchesModes(mode, input, failed, output) ==
    IF input = << >> THEN output = << >>
    ELSE LET file == Head(input) IN
         IF ~IsTiff(file) \/ mode = "preserve" \/ file.fileName \in failed
         THEN /\ output # << >>
              /\ Head(output) = file
              /\ MatchesModes(mode, Tail(input), failed, Tail(output))
         ELSE IF mode = "convert"
         THEN /\ output # << >>
              /\ DerivedOf(file, Head(output))
              /\ MatchesModes(mode, Tail(input), failed, Tail(output))
         ELSE /\ Len(output) >= 2
              /\ output[1] = file
              /\ DerivedOf(file, output[2])
              /\ MatchesModes(mode, Tail(input), failed, Tail(Tail(output)))

TiffReturned == pp.tiffResult.idx = 1

\* C22: when no conversion fails, TiffConverter.process replaces each TIFF
\* by one derived JPEG in mode convert (the original is absent), returns
\* its input in mode preserve, returns each TIFF followed by its JPEG in
\* mode both, and is not called in mode none; the files that are not TIFFs
\* pass through unchanged and in their original order.
C22_ModeSemantics ==
    /\ pp.tiffMode = "none" =>
          \A i \in DOMAIN pp.processCalls : pp.processCalls[i] # "TiffConverter"
    /\ (TiffReturned /\ pp.tiffResult.warnings = << >>) =>
          LET out == pp.tiffResult.outputFiles IN
          /\ MatchesModes(pp.tiffMode, pp.input, {}, out)
          /\ pp.tiffMode = "preserve" => out = pp.input
          /\ pp.tiffMode = "convert" =>
                /\ Len(out) = Len(pp.input)
                /\ \A i \in DOMAIN out : ~IsTiff(out[i])
          /\ pp.tiffMode = "both" =>
                Len(out) = Len(pp.input) + Len(SelectSeq(pp.input, IsTiff))
          /\ SelectSeq(out, IsOriginalNonTiff) = SelectSeq(pp.input, IsOriginalNonTiff)

\* C22 witness: in mode both the run returned a text file, a TIFF, the
\* TIFF's JPEG and a scanned JPEG, in that order.
C22_Witness ==
    /\ pp.pc = "returned"
    /\ pp.tiffMode = "both"
    /\ pp.input = << ScannedFile("/", "b", ".txt"), ScannedFile("/d", "a", ".TIF"),
                     ScannedFile("/", "a", ".jpg") >>
    /\ Len(pp.result) = 4
    /\ pp.result[2] = pp.input[2]
    /\ DerivedOf(pp.input[2], pp.result[3])
    /\ pp.result[4] = pp.input[3]

Occurs(files, file) == Cardinality({ i \in DOMAIN files : files[i] = file })

FailedNames(warnings) == { warnings[i] : i \in DOMAIN warnings }

\* C23: a failed conversion leaves the original in the output exactly once,
\* records one warning and counts the file skipped; process() itself does
\* not fail over it; the other files are handled as the mode calls for;
\* processedCount + skippedCount is the number of TIFFs handled.
C23_FailureIsNonFatal ==
    /\ pp.pc = "tiff" =>
          pp.process.processedCount + pp.process.skippedCount
              = Len(SelectSeq(SubSeq(pp.currentFiles, 1, pp.process.idx - 1), IsTiff))
    /\ pp.error = "TiffConverter" => (pp.tiffResult = NoProcess /\ pp.written = {})
    /\ TiffReturned =>
          LET r == pp.tiffResult
              failed == FailedNames(r.warnings)
          IN
          /\ r.processedCount + r.skippedCount = Len(SelectSeq(pp.input, IsTiff))
          /\ Cardinality(failed) = Len(r.warnings)
          /\ pp.tiffMode \in {"convert", "both"} => r.skippedCount = Len(r.warnings)
          /\ \A i \in DOMAIN pp.input :
                pp.input[i].fileName \in failed =>
                    Occurs(r.outputFiles, pp.input[i]) = 1
          /\ MatchesModes(pp.tiffMode, pp.input, failed, r.outputFiles)

\* C23 witness: in mode convert the conversion of the first of two TIFFs
\* failed and the second was converted.
C23_Witness ==
    /\ TiffReturned
    /\ pp.tiffMode = "convert"
    /\ Len(pp.input) = 3
    /\ IsTiff(pp.input[1]) /\ IsTiff(pp.input[2]) /\ ~IsTiff(pp.input[3])
    /\ pp.tiffResult.warnings = << pp.input[1].fileName >>
    /\ pp.tiffResult.skippedCount = 1
    /\ pp.tiffResult.processedCount = 1
    /\ pp.tiffResult.outputFiles[1] = pp.input[1]
    /\ DerivedOf(pp.input[2], pp.tiffResult.outputFiles[2])

\* C24: when a stage's process() throws, run() throws that error only
\* after cleanup() of every registered preprocessor was invoked, whether or
\* not one of them failed, and no stage is run after the one that threw.
C24_CleanupBeforeThrow ==
    /\ pp.error # "none" =>
          /\ pp.processCalls # << >>
          /\ pp.processCalls[Len(pp.processCalls)] = pp.error
          /\ Len(pp.processCalls) = pp.k
          /\ pp.pc \in {"cleanup", "threw"}
    /\ pp.pc = "threw" =>
          /\ pp.error # "none"
          /\ pp.thrown = pp.error
          /\ \A c \in DOMAIN pp.cleaned : pp.cleaned[c] # "no"

\* C24 witness: the first of two stages threw, its own cleanup failed, the
\* converter's cleanup still ran and run() threw the stage's error.
C24_Witness ==
    /\ pp.pc = "threw"
    /\ pp.preprocessors = << "Other", "TiffConverter" >>
    /\ pp.applicable = << 1, 2 >>
    /\ pp.thrown = "Other"
    /\ pp.processCalls = << "Other" >>
    /\ pp.cleaned = << "threw", "returned" >>

\* C25: in a dry run, run() calls process() of no stage, creates no temp
\* directory or file, and returns the list it was given.
C25_DryRunTouchesNothing ==
    pp.dryRun =>
        /\ pp.processCalls = << >>
        /\ pp.mkdirs = 0
        /\ pp.written = {}
        /\ pp.tempFiles = << >>
        /\ ~pp.tempDir
        /\ pp.pc \notin {"tiff", "cleanup", "threw"}
        /\ pp.pc = "returned" => pp.result = pp.input

\* C25 witness: a dry run in mode convert over a list with a TIFF went
\* through both applicable stages and returned.
C25_Witness ==
    /\ pp.dryRun
    /\ pp.pc = "returned"
    /\ pp.tiffMode = "convert"
    /\ Len(pp.applicable) = 2
    /\ pp.k = 3
    /\ \E i \in DOMAIN pp.input : IsTiff(pp.input[i])

\* The value a source gives for a setting, as the number it denotes for
\* the numeric settings.
ValueOf(s, text) == IF s \in NumericSettings THEN parseInt(text) ELSE text

\* C28 as stated: every setting resolves to the command-line value when
\* one is given, else the environment value, else the config-file value,
\* else the default.
C28_ConfigPriority ==
    cf.pc = "done" =>
        \A s \in Settings :
            cf.config[s] =
                IF cf.argv[s] # "" THEN ValueOf(s, cf.argv[s])
                ELSE IF cf.environ[s] # "" THEN ValueOf(s, cf.environ[s])
                ELSE IF cf.json[s] # "" THEN cf.json[s]
                ELSE DefaultValue(s)

\* C26: a dry run makes no init, start-file, complete-file or finalize
\* request and no PUT, and creates no task: it ends after the scan.
C26_DryRunScansOnly ==
    config.dryRun =>
        /\ initCalls = 0 /\ ~initAcked /\ finalizeCalls = 0
        /\ tasks = << >> /\ queue = << >> /\ workers = << >>
        /\ mp = << >> /\ issued = 0
        /\ phase \in {"validate", "scan", "done", "failed"}

\* C26 witness: a dry run whose scan found files returned with status 0.
C26_Witness ==
    /\ config.dryRun
    /\ phase = "done"
    /\ scanned = MaxFiles
    /\ exited /\ exitCode = 0

\* C27 as stated: when the process is interrupted, open file handles are
\* closed before it exits.
C27_CleanupOnInterrupt ==
    runError = "SIGINT" => \A t \in DOMAIN mp : mp[t].handle # "open"

\* C29 as stated: at the step that sets a task's status to 'completed' or
\* 'failed', no part upload of that file is still in progress.
C29_PartPoolJoined ==
    [][\A t \in DOMAIN tasks :
          (tasks[t].status \notin Terminal /\ tasks'[t].status \in Terminal)
              => \A i \in DOMAIN mp'[t].pw : mp'[t].pw[i].pc # "uploading"]_vars

\* Part uploads whose read was issued on the open handle and whose PUT has
\* not settled, over all files.
InFlightParts ==
    { p \in (DOMAIN mp) \X (1..MaxParts) :
        /\ p[2] \in DOMAIN mp[p[1]].pw
        /\ mp[p[1]].pw[p[2]].pc = "uploading"
        /\ ~mp[p[1]].pw[p[2]].closed }

\* C30 as stated: with file-level parallelism N and part-level parallelism
\* M, at most N x M part uploads are in flight over all files.
C30_TotalInFlightBound ==
    Cardinality(InFlightParts) <= config.parallelUploads * config.parallelParts

\* C39: the finalize request is never sent in a run in which a task ended
\* 'failed': no finalize call has been made while a task is 'failed', and the
\* step that sends the request is taken with no task 'failed'.
C39_NoFinalizeAfterFailure ==
    /\ [](SomeTaskFailed => finalizeCalls = 0 /\ phase \in {"files", "failed"})
    /\ [][finalizeCalls' # finalizeCalls => ~SomeTaskFailed]_vars

\* C39 witness: the run is over un-finalized after a per-file failure, with
\* another file already reported complete to the coordinator.
C39_Witness ==
    /\ exited /\ finalizeCalls = 0 /\ initAcked
    /\ \E t, u \in DOMAIN tasks :
        /\ tasks[t].status = "failed"
        /\ tasks[u].status = "completed" /\ tasks[u].completeAcked

\* The tasks some worker holds.
HeldTasks == { workers[w].task : w \in DOMAIN workers } \ {0}

\* C36: every scanned file yields exactly one task; a task is 'pending'
\* exactly while it waits in the queue, is held by exactly one worker while
\* 'uploading', is never in the queue twice, has its start and complete
\* requests made at most once, and none is 'pending' when uploadFiles is over.
C36_EachTaskDequeuedOnce ==
    /\ initAcked /\ phase # "failed" => Len(tasks) = scanned
    /\ \A i, j \in DOMAIN queue : i # j => queue[i] # queue[j]
    /\ \A v, w \in DOMAIN workers :
            v # w /\ workers[v].task # 0 => workers[v].task # workers[w].task
    /\ \A t \in DOMAIN tasks :
        /\ tasks[t].startCalls <= 1 /\ tasks[t].completeCalls <= 1
        /\ phase = "files" =>
              (tasks[t].status = "pending" <=> t \in Range(queue))
        /\ t \in HeldTasks => tasks[t].status = "uploading"
        /\ t \in HeldTasks => t \notin Range(queue)
        /\ filesResult # "none" =>
              tasks[t].status # "pending" /\ tasks[t].startCalls = 1

\* C36 witness: uploadFiles returned with two workers having shared two
\* tasks, each started and completed once.
C36_Witness ==
    /\ filesResult = "returned" /\ config.parallelUploads = 2
    /\ scanned = 2 /\ Len(tasks) = 2
    /\ \A t \in DOMAIN tasks :
        /\ tasks[t].status = "completed"
        /\ tasks[t].startCalls = 1 /\ tasks[t].completeCalls = 1

\* C38: uploadFiles finishes: the run does not stay in its file phase, when
\* uploadFiles is over every task is 'completed' or 'failed', and every retry
\* loop is over after at most maxRetries + 1 attempts.
C38_UploadFilesFinishes ==
    /\ <>[](phase # "files")
    /\ [](phase = "files" /\ ~exited => filesResult = "none")
    /\ [](filesResult # "none" =>
            \A t \in DOMAIN tasks : tasks[t].status \in Terminal)
    /\ [](\A t \in DOMAIN tasks :
            tasks[t].putAttempts <= DefaultMaxRetries + 1)
    /\ [](\A e \in CoordErrors \cup PartErrors \cup SimpleErrors :
          \A f \in FailCounts :
            retryWithBackoff(e, f, DefaultMaxRetries).attempts
                <= DefaultMaxRetries + 1)

\* C38 witness: uploadFiles is over with one task 'completed' and one
\* 'failed' after a PUT that failed at transport level.
C38_Witness ==
    /\ filesResult # "none"
    /\ \E t, u \in DOMAIN tasks :
        /\ tasks[t].status = "completed"
        /\ tasks[u].status = "failed"
        /\ tasks[u].putAttempts >= 1

\* C37: no positioned read is issued on a file handle after uploadMultipart
\* has closed it: no part worker has taken a part from the queue, and read
\* it, with the handle closed.
C37_NoReadAfterClose ==
    \A t \in DOMAIN mp : \A i \in DOMAIN mp[t].pw : ~mp[t].pw[i].closed

\* ceil(a / b) for positive b.
Ceil(a, b) == (a + b - 1) \div b

\* The multipart transfer of the call returned its manifest.
ManifestReturned ==
    /\ uf.pc \in {"complete", "completed", "returned"}
    /\ uf.multipartCalls = 1

\* C31: whenever a multipart file is reported complete to the coordinator,
\* the part numbers of the reported manifest are exactly
\* 1 .. ceil(size / partSize), whatever part targets the coordinator supplied.
C31_ManifestCoversFile ==
    uf.caller = "uploadFile" /\ ManifestReturned =>
        Range(uf.manifest) = 1..Ceil(uf.size, uf.partSize)

\* The bytes of the file PUT for part p.
Sent(p) == { b \in 0..(uf.size - 1) :
                /\ uf.puts[p].n > 0
                /\ uf.puts[p].offset <= b
                /\ b < uf.puts[p].offset + uf.puts[p].length }

RECURSIVE SumLengths(_)
SumLengths(k) == IF k = 0 THEN 0 ELSE uf.puts[k].length + SumLengths(k - 1)

\* C32: every PUT of part p carries the bytes [(p-1)*P, min(p*P, S)); when
\* the part targets are 1..ceil(S/P), in any order, and all were uploaded,
\* the ranges sent are pairwise disjoint, cover [0, S) and their lengths sum
\* to S.
C32_PartByteRanges ==
    /\ \A p \in 1..MaxTargets :
          uf.puts[p].n > 0 =>
            /\ uf.puts[p].offset = (p - 1) * uf.partSize
            /\ uf.puts[p].offset + uf.puts[p].length
                  = Min(p * uf.partSize, uf.size)
            /\ uf.puts[p].length > 0
    /\ LET k == Ceil(uf.size, uf.partSize) IN
       ManifestReturned /\ Range(uf.targets) = 1..k /\ uf.completed = << >> =>
          /\ \A p \in 1..k : uf.puts[p].n = 1
          /\ \A p, q \in 1..k : p # q => Sent(p) \cap Sent(q) = {}
          /\ UNION { Sent(p) : p \in 1..k } = 0..(uf.size - 1)
          /\ SumLengths(k) = uf.size

\* C32 witness: a file of 5 bytes with part size 2 was sent as parts of 2, 2
\* and 1 bytes, with the part targets supplied in descending order.
C32_Witness ==
    /\ ManifestReturned
    /\ uf.size = 5 /\ uf.partSize = 2 /\ uf.targets = << 3, 2, 1 >>
    /\ uf.puts[1].length = 2 /\ uf.puts[2].length = 2 /\ uf.puts[3].length = 1
    /\ uf.puts[3].offset = 4

\* s is strictly ascending.
StrictlyAscending(s) == \A i, j \in DOMAIN s : i < j => s[i] < s[j]

\* C33: given already completed parts, no PUT is issued for any of them, no
\* part is PUT twice, and when uploadMultipart returns every other part
\* target was PUT exactly once and the manifest is the strictly ascending
\* list of the supplied and the newly uploaded part numbers.
C33_ResumeSkipsCompleted ==
    uf.caller = "resume" =>
        /\ \A p \in Range(uf.completed) : uf.puts[p].n = 0
        /\ \A p \in 1..MaxTargets : uf.puts[p].n <= 1
        /\ uf.pc = "returned" =>
            /\ \A p \in Range(uf.targets) \ Range(uf.completed) :
                    uf.puts[p].n = 1
            /\ \A p \in 1..MaxTargets :
                    p \notin Range(uf.targets) => uf.puts[p].n = 0
            /\ StrictlyAscending(uf.manifest)
            /\ Range(uf.manifest) = Range(uf.completed) \cup Range(uf.targets)

\* C33 witness: uploadMultipart returned parts 1, 2, 3 having been given
\* part 2 as completed and having uploaded parts 1 and 3.
C33_Witness ==
    /\ uf.caller = "resume" /\ uf.pc = "returned"
    /\ uf.completed = << 2 >> /\ uf.targets = << 1, 2, 3 >>
    /\ uf.manifest = << 1, 2, 3 >>
    /\ uf.puts[1].n = 1 /\ uf.puts[2].n = 0 /\ uf.puts[3].n = 1

\* The coordinator of the size scenario: simple below the threshold.
CoordinatorAnswer(size) == IF size < Threshold THEN "simple" ELSE "multipart"

\* C34: once startFileUpload returned a descriptor with its fields, exactly
\* one of uploadSimple and uploadMultipart has been called, the one the
\* descriptor's upload type names, whatever the file's size; with the
\* threshold coordinator, sizes threshold - 1, threshold and threshold + 1
\* take the simple, the multipart and the multipart path.
C34_PathFromDescriptor ==
    uf.caller = "uploadFile" /\ uf.pc # "start" /\ uf.present =>
        /\ uf.simpleCalls + uf.multipartCalls = 1
        /\ uf.simpleCalls = 1 <=> uf.uploadType = "simple"
        /\ uf.uploadType = CoordinatorAnswer(uf.size) =>
            /\ uf.size = Threshold - 1 =>
                    uf.simpleCalls = 1 /\ uf.multipartCalls = 0
            /\ uf.size \in {Threshold, Threshold + 1} =>
                    uf.simpleCalls = 0 /\ uf.multipartCalls = 1

\* C34 witness: a file of exactly the threshold size, answered multipart by
\* the threshold coordinator, completed over the multipart path.
C34_Witness ==
    /\ uf.caller = "uploadFile" /\ uf.pc = "completed"
    /\ uf.size = Threshold /\ uf.uploadType = CoordinatorAnswer(uf.size)
    /\ uf.multipartCalls = 1 /\ uf.simpleCalls = 0

\* The bytes stored at a local path: a scanned file's own bytes, or what
\* was last written at a temp path.
StoredAt(localPath) ==
    IF localPath[1] = "tmp" THEN pp.disk[localPath]
    ELSE << "file", localPath[1], localPath[2], localPath[3] >>

\* The scanned file a derived JPEG was made from carries the same policy.
PolicyOfSource(jpeg) ==
    \E i \in DOMAIN pp.input :
        /\ DerivedOf(pp.input[i], jpeg)
        /\ jpeg.processingConfig = pp.input[i].processingConfig

\* C35: after TiffConverter.process returned, and until the temp files are
\* cleaned up, the content address and size recorded in every file of its
\* output are the hash and length of the bytes stored at the file's
\* localPath, and every derived JPEG carries the policy of its source.
C35_OutputMatchesDisk ==
    TiffReturned /\ pp.cleaned = [c \in DOMAIN pp.cleaned |-> "no"] =>
        \A i \in DOMAIN pp.tiffResult.outputFiles :
            LET file == pp.tiffResult.outputFiles[i] IN
            /\ file.cid = Hash(StoredAt(file.localPath))
            /\ file.size = ByteLength(StoredAt(file.localPath))
            /\ file.localPath[1] = "tmp" => PolicyOfSource(file)

====
